---- MODULE Spec2Model ----
(***************************************************************************)
(* Model of the backtesting core of quant_strategy_v2:                     *)
(*   qs/backtester/broker.py  (Broker, CommissionInfo, SlippageModel)      *)
(*   qs/backtester/data.py    (DataFeed)                                   *)
(*   qs/backtester/engine.py  (BacktestEngine)                             *)
(*   qs/backtester/runner.py  (run_backtest)                               *)
(*   qs/strategy/etf_equal_weight_annual.py (ETFEqualWeightAnnualStrategy) *)
(*   qs/strategy/low_pe_quarterly.py      (LowPEQuarterlyStrategy)         *)
(*   qs/strategy/ah_premium_quarterly.py  (AHPremiumQuarterlyStrategy)     *)
(*   qs/sqlite_utils.py       (dedupe_table and the unique index)          *)
(*                                                                         *)
(* Numbers.  The program computes in floats; the model computes in exact   *)
(* fixed point.  A rate (commission_rate, tax_rate, slippage, a target     *)
(* weight) is an integer number of RateDen-ths.  A raw price argument is   *)
(* an integer number of currency units.  Every amount of money (cash,      *)
(* fees, gross amounts, equity, marks, exec prices) is an integer number   *)
(* of 1/Scale currency units, Scale = RateDen^2, which makes every product *)
(* price * (1 +- slippage) * size * rate exact.                            *)
(***************************************************************************)
EXTENDS Integers, Sequences, FiniteSets, TLC

\* ------------------------------------------------------------------ bounds
RateDen == 10
MaxOps == 2
MaxSize == 20

Scale == RateDen * RateDen
Symbols == {"A", "B"}
Prices == {0, 5, 10}
Sizes == {0, 1, MaxSize}
\* target percents: below 0, inside (0,1), above 1
Targets == {-5, 5, 15}
InitCash == {100 * Scale}
\* <<commission_rate, tax_rate, slippage, min_commission>>
Configs == {<<1, 0, 0, 0>>, <<0, 1, 0, 5 * Scale>>, <<1, 1, 1, 5 * Scale>>}
DATE == "20200102"
MaxBars == 2
MaxFeedOps == 4
MaxEtfBars == 3
\* the trading days a calendar is drawn from, and the start dates tried
EtfDates == {20191231, 20200102, 20200103, 20210104, 20220104}
StartDates == {20200101, 20200103}
YearIntervals == {1, 2}
EtfPrices == {0, 10}
MaxRows == 3
\* the SQL NULL, and the values of the two key columns of a row
NULL == "NULL"
KeyValues == [a : {NULL, "", "x", "y"}, b : {NULL, "d"}]
\* the trade dates of the bars, by position
Dates == [i \in 1..(MaxBars + 1) |-> 20200100 + i]
BarOpens == {10}
BarCloses == {5, 10}

\* Broker fields (broker.py 77-93)
VARIABLES cash, positions, last_prices, trades, total_fees
VARIABLES commission_rate, tax_rate, slippage, min_commission, symbol
\* history of the last Broker call: its name, arguments and result (call), the
\* Broker as it was when the call started (pre), and the number of calls made
VARIABLES call, pre, nops

\* DataFeed fields (data.py 17-19): the bars and the cursor
VARIABLES bars, _i
\* BacktestEngine fields (engine.py 29-34) and the strategy's optional members
VARIABLES equity_curve, mark_error_policy, require_marks_when_positions
VARIABLES has_hooks, has_mark_prices
\* the position of run(): "idle", "on_bar", "marks", "finally", "returned",
\* "raised"; what run() is about to do once the finally block is through
\* (pending); the place an exception came from (raisedBy)
VARIABLES pc, pending, raisedBy
\* history of one run(): the strategy members invoked, in order (calls), and
\* one entry per bar whose marks were collected (barlog)
VARIABLES calls, barlog
\* a second run of the same strategy on the bars truncated after bar k:
\* its feed, Broker and equity curve, whether it is over (done), and whether
\* the strategy has observed the same things in both runs so far (same)
VARIABLES twin
\* history of the calls made on a DataFeed used on its own: one entry
\* [op, before, after, ret] per step() or reset()
VARIABLES feedlog
\* ETFEqualWeightAnnualStrategy fields (etf_equal_weight_annual.py 63-85)
VARIABLES symbols, start_date, rebalance_year_interval, _last_rebalance_period, rebalance_history
\* the price store the strategy reads: etf_daily[i][sym] is the price of sym
\* on the date of bar i, 0 when the store has no row for it
VARIABLES etf_daily
\* one entry [i, eligible, complete, ordered] per on_bar call of the strategy
VARIABLES onbarlog
\* LowPEQuarterlyStrategy / AHPremiumQuarterlyStrategy: the class of the
\* strategy object ("" when there is none), its rebalance_month_interval, the
\* database it reads (store[i] is what the database holds for the date of bar
\* i: whether the signal records of that date exist, whether both FX rates of
\* that date exist, the price of each symbol, 0 when it has no row) and the
\* delist_date of each symbol (0 when it has none)
VARIABLES strategy, rebalance_month_interval, store, delist_date
\* a SQLite table as the sequence of its rows in rowid order, whether the
\* unique index over the key columns exists, and the last utility call:
\* its name, its delete_null_keys argument, the rows it started from
VARIABLES table, index_exists, dbcall

brokerVars == <<cash, positions, last_prices, trades, total_fees>>
configVars == <<commission_rate, tax_rate, slippage, min_commission, symbol>>
engineConfigVars == <<bars, mark_error_policy, require_marks_when_positions, has_hooks, has_mark_prices>>
engineVars == <<engineConfigVars, _i, equity_curve, pc, pending, raisedBy, calls, barlog>>
feedVars == <<feedlog>>
strategyVars == <<symbols, start_date, rebalance_year_interval, _last_rebalance_period,
                  rebalance_history, etf_daily, onbarlog>>
periodicVars == <<strategy, rebalance_month_interval, store, delist_date>>
dbVars == <<table, index_exists, dbcall>>
auxVars == <<feedVars, strategyVars, periodicVars, dbVars>>
vars == <<brokerVars, configVars, call, pre, nops, engineVars, twin, auxVars>>

\* ------------------------------------------------------------ arithmetic
Max(a, b) == IF a >= b THEN a ELSE b
Min(a, b) == IF a <= b THEN a ELSE b

RECURSIVE GCD(_, _)
GCD(a, b) == IF b = 0 THEN a ELSE GCD(b, a % b)

\* exact fraction n/d, d > 0, in lowest terms
Frac(n, d) == LET g == GCD(IF n < 0 THEN -n ELSE n, d)
              IN  IF g = 0 THEN [n |-> 0, d |-> 1] ELSE [n |-> n \div g, d |-> d \div g]
ZeroFrac == [n |-> 0, d |-> 1]

\* a raw price in money units
Px(price) == price * Scale

\* ------------------------------------------------------------- Position
Position == [size |-> 0, avg_price |-> ZeroFrac]

\* ------------------------------------------- CommissionInfo / SlippageModel
\* the commission without its floor
buy_fees_nofloor(gross_amount) == (gross_amount * commission_rate) \div RateDen
buy_fees(gross_amount) ==
    Max((gross_amount * commission_rate) \div RateDen, min_commission)

\* the floor applied to commission and tax together
sell_fees_floortotal(gross_amount) ==
    Max((gross_amount * commission_rate) \div RateDen + (gross_amount * tax_rate) \div RateDen,
        min_commission)
sell_fees(gross_amount) ==
    LET commission == Max((gross_amount * commission_rate) \div RateDen, min_commission)
        tax == (gross_amount * tax_rate) \div RateDen
    IN  commission + tax

adjust_price(price, side) ==
    IF side = "BUY" THEN price * (RateDen + slippage) * RateDen
                    ELSE price * (RateDen - slippage) * RateDen

\* --------------------------------------------------------------- Broker
\* the Broker object as one record
Self == [cash |-> cash, positions |-> positions, last_prices |-> last_prices,
         trades |-> trades, total_fees |-> total_fees]

\* dict[key] = value
Put(f, k, v) == [x \in (DOMAIN f) \cup {k} |-> IF x = k THEN v ELSE f[x]]
\* dict.update(other)
Update(f, g) == [x \in (DOMAIN f) \cup (DOMAIN g) |-> IF x \in DOMAIN g THEN g[x] ELSE f[x]]
EmptyMap == [x \in {} |-> 0]

_get_position(b, sym) ==
    IF sym \in DOMAIN b.positions THEN b
    ELSE [b EXCEPT !.positions = Put(b.positions, sym, Position)]

\* the loop of total_equity.  A symbol without a mark is valued at avg_price
\* (fallback_price is never passed); every held symbol has a mark, because a
\* buy sets it, so that term is only ever size 0 times avg_price.
RECURSIVE SumValue(_, _)
SumValue(b, syms) ==
    IF syms = {} THEN 0
    ELSE LET sym == CHOOSE s \in syms : TRUE
             pos == b.positions[sym]
             value == IF sym \in DOMAIN b.last_prices
                      THEN pos.size * b.last_prices[sym]
                      ELSE (pos.size * pos.avg_price.n) \div pos.avg_price.d
         IN  value + SumValue(b, syms \ {sym})

\* an equity that counts one share of every symbol the Broker tracks
total_equity_oneshare(b) ==
    b.cash + SumValue([b EXCEPT !.positions =
                          [sym \in DOMAIN b.positions |-> [size |-> 1, avg_price |-> ZeroFrac]]],
                      DOMAIN b.positions)
total_equity(b) == b.cash + SumValue(b, DOMAIN b.positions)

\* marks that pile up on the marks already there
update_marks_addup(b, price_map) ==
    [b EXCEPT !.last_prices =
        [x \in (DOMAIN b.last_prices) \cup (DOMAIN price_map) |->
            (IF x \in DOMAIN b.last_prices THEN b.last_prices[x] ELSE 0)
            + (IF x \in DOMAIN price_map THEN price_map[x] ELSE 0)]]
update_marks(b, price_map) == [b EXCEPT !.last_prices = Update(b.last_prices, price_map)]

\* fees that replace the total
AccumulateFees_latest(sum, record) == record.fees
\* self.total_fees += record.fees (broker.py 125)
AccumulateFees(sum, record) == sum + record.fees

\* a log that keeps the latest record only
_log_trade_latest(b, record) ==
    [b EXCEPT !.trades = <<record>>,
              !.total_fees = AccumulateFees(b.total_fees, record)]
_log_trade(b, record) ==
    [b EXCEPT !.trades = Append(b.trades, record),
              !.total_fees = AccumulateFees(b.total_fees, record)]

TradeRecord(trade_date, action, sym, price, exec_price, size, gross_amount, fees, cash_after, position_after, equity_after) ==
    [trade_date |-> trade_date, action |-> action, symbol |-> sym,
     price |-> price, exec_price |-> exec_price, size |-> size,
     gross_amount |-> gross_amount, fees |-> fees, cash_after |-> cash_after,
     position_after |-> position_after, equity_after |-> equity_after]

\* the result of a Broker call: the Broker after it and the value returned
Result(b, ret) == [b |-> b, ret |-> ret, raised |-> FALSE]
Raised(b) == [b |-> b, ret |-> 0, raised |-> TRUE]

\* force_write_off that leaves the last mark in place
force_write_off_keepmark(b, trade_date, sym) ==
    IF sym \notin DOMAIN b.positions \/ b.positions[sym].size <= 0
    THEN Result(b, 0)
    ELSE LET size == b.positions[sym].size
             b1 == [b EXCEPT !.positions[sym] = [size |-> 0, avg_price |-> ZeroFrac]]
             eq == total_equity(b1)
             rec == TradeRecord(trade_date, "WRITE_OFF", sym, 0, 0, size, 0, 0,
                                b1.cash, 0, eq)
         IN  Result(_log_trade(b1, rec), size)

force_write_off(b, trade_date, sym) ==
    IF sym \notin DOMAIN b.positions \/ b.positions[sym].size <= 0
    THEN Result(b, 0)
    ELSE LET size == b.positions[sym].size
             b1 == [b EXCEPT !.last_prices = Put(b.last_prices, sym, 0),
                             !.positions[sym] = [size |-> 0, avg_price |-> ZeroFrac]]
             eq == total_equity(b1)
             rec == TradeRecord(trade_date, "WRITE_OFF", sym, 0, 0, size, 0, 0,
                                b1.cash, 0, eq)
         IN  Result(_log_trade(b1, rec), size)

\* the loop with the fees left out of the comparison
RECURSIVE ClampToCash_nofees(_, _, _)
ClampToCash_nofees(avail, exec_price, size) ==
    IF size <= 0 THEN 0
    ELSE IF exec_price * size <= avail THEN size
    ELSE ClampToCash_nofees(avail, exec_price, size - 1)

\* the affordability loop of _execute_buy (broker.py 172-181)
RECURSIVE ClampToCash(_, _, _)
ClampToCash(avail, exec_price, size) ==
    IF size <= 0 THEN 0
    ELSE IF exec_price * size + buy_fees(exec_price * size) <= avail THEN size
    ELSE ClampToCash(avail, exec_price, size - 1)

\* a buy whose equity_after is taken at the mark the symbol had before
_execute_buy_stalemark(b, trade_date, sym, price, size0) ==
    IF size0 <= 0 \/ price <= 0 THEN Result(b, 0)
    ELSE LET exec_price == adjust_price(price, "BUY")
             size == IF exec_price * size0 + buy_fees(exec_price * size0) > b.cash
                     THEN ClampToCash(b.cash, exec_price, size0)
                     ELSE size0
         IN  IF size <= 0 THEN Result(b, 0)
             ELSE LET gross_cost == exec_price * size
                      fees == buy_fees(gross_cost)
                      b1 == _get_position([b EXCEPT !.cash = b.cash - (gross_cost + fees)], sym)
                      pos == b1.positions[sym]
                      new_size == pos.size + size
                      \* new_value / pos.size with new_value = avg_price * size + gross_cost
                      new_avg == IF new_size > 0
                                 THEN Frac(pos.avg_price.n * pos.size + gross_cost * pos.avg_price.d,
                                           pos.avg_price.d * new_size)
                                 ELSE ZeroFrac
                      b2 == [b1 EXCEPT !.positions[sym] = [size |-> new_size, avg_price |-> new_avg],
                                       !.last_prices = Put(b1.last_prices, sym, exec_price)]
                      eq == total_equity([b2 EXCEPT !.last_prices = b1.last_prices])
                  IN  Result(_log_trade(b2, TradeRecord(trade_date, "BUY", sym, Px(price),
                                 exec_price, size, gross_cost, fees, b2.cash, new_size, eq)),
                             size)

_execute_buy(b, trade_date, sym, price, size0) ==
    IF size0 <= 0 \/ price <= 0 THEN Result(b, 0)
    ELSE LET exec_price == adjust_price(price, "BUY")
             size == IF exec_price * size0 + buy_fees(exec_price * size0) > b.cash
                     THEN ClampToCash(b.cash, exec_price, size0)
                     ELSE size0
         IN  IF size <= 0 THEN Result(b, 0)
             ELSE LET gross_cost == exec_price * size
                      fees == buy_fees(gross_cost)
                      b1 == _get_position([b EXCEPT !.cash = b.cash - (gross_cost + fees)], sym)
                      pos == b1.positions[sym]
                      new_size == pos.size + size
                      \* new_value / pos.size with new_value = avg_price * size + gross_cost
                      new_avg == IF new_size > 0
                                 THEN Frac(pos.avg_price.n * pos.size + gross_cost * pos.avg_price.d,
                                           pos.avg_price.d * new_size)
                                 ELSE ZeroFrac
                      b2 == [b1 EXCEPT !.positions[sym] = [size |-> new_size, avg_price |-> new_avg],
                                       !.last_prices = Put(b1.last_prices, sym, exec_price)]
                      eq == total_equity(b2)
                  IN  Result(_log_trade(b2, TradeRecord(trade_date, "BUY", sym, Px(price),
                                 exec_price, size, gross_cost, fees, b2.cash, new_size, eq)),
                             size)

\* broker.py 223-224: a position sold down to 0 has its avg_price reset
SellAvgPrice_keep(pos, new_size) == pos.avg_price
SellAvgPrice(pos, new_size) == IF new_size = 0 THEN ZeroFrac ELSE pos.avg_price

\* a sell cut down to what the cash could pay the fees of
RECURSIVE SellSize_cashbound(_, _, _, _)
SellSize_cashbound(size0, held, avail, exec_price) ==
    LET size == IF size0 > held THEN held ELSE size0
    IN  IF size <= 0 THEN 0
        ELSE IF sell_fees(exec_price * size) <= avail + exec_price * size THEN size
        ELSE SellSize_cashbound(size - 1, held, avail, exec_price)
\* broker.py 215-216: the requested size clamped to the position, whatever the cash
SellSize(size0, held, avail, exec_price) == IF size0 > held THEN held ELSE size0

_execute_sell(b, trade_date, sym, price, size0) ==
    IF size0 <= 0 \/ price <= 0 THEN Result(b, 0)
    ELSE LET b0 == _get_position(b, sym)
             pos == b0.positions[sym]
         IN  IF pos.size <= 0 THEN Result(b0, 0)
             ELSE LET exec_price == adjust_price(price, "SELL")
                      size == SellSize(size0, pos.size, b0.cash, exec_price)
                      gross_proceeds == exec_price * size
                      fees == sell_fees(gross_proceeds)
                      net_in == gross_proceeds - fees
                      new_size == pos.size - size
                      new_avg == SellAvgPrice(pos, new_size)
                      b1 == [b0 EXCEPT !.cash = b0.cash + net_in,
                                       !.positions[sym] = [size |-> new_size, avg_price |-> new_avg],
                                       !.last_prices = Put(b0.last_prices, sym, exec_price)]
                      eq == total_equity(b1)
                  IN  Result(_log_trade(b1, TradeRecord(trade_date, "SELL", sym, Px(price),
                                 exec_price, size, gross_proceeds, fees, b1.cash, new_size, eq)),
                             size)

\* buy_sym with an explicit size
buy_sym(b, trade_date, sym, price, size) == _execute_buy(b, trade_date, sym, price, size)

\* buy_sym with size=None: the estimate cash // (exec_price * (1 + commission_rate)).
\* A price of 0 makes the floor division raise ZeroDivisionError.
buy_all_sym(b, trade_date, sym, price) ==
    LET exec_price == adjust_price(price, "BUY")
        est_num == exec_price * (RateDen + commission_rate)
    IN  IF est_num = 0 THEN Raised(b)
        ELSE _execute_buy(b, trade_date, sym, price, (b.cash * RateDen) \div est_num)

sell_sym(b, trade_date, sym, price, size) ==
    _execute_sell(_get_position(b, sym), trade_date, sym, price, size)

sell_all_sym(b, trade_date, sym, price) ==
    LET b0 == _get_position(b, sym)
    IN  _execute_sell(b0, trade_date, sym, price, b0.positions[sym].size)

\* the target size taken from the equity at the marks the Broker had
order_target_percent_sym_stale(b, trade_date, sym, price, target0) ==
    LET target == Max(0, Min(RateDen, target0))
        equity == total_equity(b)
        exec_price == adjust_price(price, IF target > 0 THEN "BUY" ELSE "SELL")
    IN  IF exec_price = 0 THEN Raised(b)
        ELSE LET target_size == (equity * target) \div (RateDen * exec_price)
                 b2 == _get_position(b, sym)
                 delta == target_size - b2.positions[sym].size
             IN  IF delta > 0 THEN _execute_buy(b2, trade_date, sym, price, delta)
                 ELSE IF delta < 0 THEN _execute_sell(b2, trade_date, sym, price, 0 - delta)
                 ELSE Result(b2, 0)

order_target_percent_sym(b, trade_date, sym, price, target0) ==
    LET target == Max(0, Min(RateDen, target0))
        b1 == [b EXCEPT !.last_prices = Put(b.last_prices, sym, Px(price))]
        equity == total_equity(b1)
        exec_price == adjust_price(price, IF target > 0 THEN "BUY" ELSE "SELL")
    IN  IF exec_price = 0 THEN Raised(b1)     \* ZeroDivisionError of //
        ELSE LET target_size == (equity * target) \div (RateDen * exec_price)
                 b2 == _get_position(b1, sym)
                 delta == target_size - b2.positions[sym].size
             IN  IF delta > 0 THEN _execute_buy(b2, trade_date, sym, price, delta)
                 ELSE IF delta < 0 THEN _execute_sell(b2, trade_date, sym, price, 0 - delta)
                 ELSE Result(b2, 0)

\* clean_weights of rebalance_target_percents (broker.py 307-311)
CleanWeights(target_weights) ==
    [s \in {x \in DOMAIN target_weights : target_weights[x] > 0} |->
        Min(RateDen, Max(0, target_weights[s]))]

\* no marking: the equity is taken at the marks the Broker had
MarkProvided_stale(b, price_map) == b
\* the marking loop (broker.py 315-317)
MarkProvided(b, price_map) ==
    [b EXCEPT !.last_prices =
        Update(b.last_prices,
               [s \in {x \in DOMAIN price_map : price_map[x] > 0} |-> Px(price_map[s])])]

\* a symbol without an executable price marked at 0
SkipSymbol_zeromark(acc, sym) ==
    [acc EXCEPT !.b = [acc.b EXCEPT !.last_prices = Put(acc.b.last_prices, sym, 0)]]
\* broker.py 324-326: a symbol without an executable price is passed over
SkipSymbol(acc, sym) == acc

\* the target-size loop (broker.py 322-337) over the symbols in visiting order;
\* acc = [b, sells, buys], an order being <<sym, size, raw price>>
RECURSIVE BuildOrders(_, _, _, _, _)
BuildOrders(acc, order, price_map, clean_weights, equity) ==
    IF order = << >> THEN acc
    ELSE LET sym == Head(order)
             target_w == IF sym \in DOMAIN clean_weights THEN clean_weights[sym] ELSE 0
         IN  IF sym \notin DOMAIN price_map \/ price_map[sym] <= 0
             THEN BuildOrders(SkipSymbol(acc, sym), Tail(order), price_map, clean_weights, equity)
             ELSE LET price == price_map[sym]
                      exec_price == adjust_price(price, IF target_w > 0 THEN "BUY" ELSE "SELL")
                      target_size == (equity * target_w) \div (RateDen * exec_price)
                      b1 == _get_position(acc.b, sym)
                      delta == target_size - b1.positions[sym].size
                      acc1 == IF delta < 0
                              THEN [acc EXCEPT !.b = b1, !.sells = Append(acc.sells, <<sym, 0 - delta, price>>)]
                              ELSE IF delta > 0
                              THEN [acc EXCEPT !.b = b1, !.buys = Append(acc.buys, <<sym, delta, price>>)]
                              ELSE [acc EXCEPT !.b = b1]
                  IN  BuildOrders(acc1, Tail(order), price_map, clean_weights, equity)

RECURSIVE ExecuteSells(_, _, _)
ExecuteSells(b, trade_date, sells) ==
    IF sells = << >> THEN b
    ELSE ExecuteSells(_execute_sell(b, trade_date, Head(sells)[1], Head(sells)[3], Head(sells)[2]).b,
                      trade_date, Tail(sells))

RECURSIVE ExecuteBuys(_, _, _)
ExecuteBuys(b, trade_date, buys) ==
    IF buys = << >> THEN b
    ELSE ExecuteBuys(IF Head(buys)[2] > 0
                     THEN _execute_buy(b, trade_date, Head(buys)[1], Head(buys)[3], Head(buys)[2]).b
                     ELSE b,
                     trade_date, Tail(buys))

\* broker.py 338-344 with the two loops exchanged
ExecuteOrders_buysfirst(b, trade_date, sells, buys) ==
    ExecuteSells(ExecuteBuys(b, trade_date, buys), trade_date, sells)
\* broker.py 338-344: every sell of the batch, then every buy
ExecuteOrders(b, trade_date, sells, buys) ==
    ExecuteBuys(ExecuteSells(b, trade_date, sells), trade_date, buys)

\* the orders in which a Python set of the given symbols can be iterated
Orders(syms) ==
    {o \in [1..Cardinality(syms) -> syms] : \A i, j \in DOMAIN o : i # j => o[i] # o[j]}

\* order = the iteration order of the set `symbols` (broker.py 313, 322)
rebalance_target_percents(b, trade_date, price_map, target_weights, order) ==
    LET clean_weights == CleanWeights(target_weights)
        b1 == MarkProvided(b, price_map)
        equity == total_equity(b1)
        built == BuildOrders([b |-> b1, sells |-> << >>, buys |-> << >>],
                             order, price_map, clean_weights, equity)
        b3 == ExecuteOrders(built.b, trade_date, built.sells, built.buys)
    IN  Result(b3, [sells |-> Len(built.sells), buys |-> Len(built.buys)])

RebalanceSymbols(b, target_weights) ==
    (DOMAIN b.positions) \cup (DOMAIN CleanWeights(target_weights))

\* ------------------------------------------------- Broker specification
Maps(vals) == UNION {[S -> vals] : S \in SUBSET Symbols}
\* price maps: every symbol priced, one symbol without a price, one with price 0
PriceMaps == [Symbols -> {5, 10}] \cup {[s \in {"A"} |-> 10], [s \in Symbols |-> IF s = "A" THEN 10 ELSE 0]}
\* target weights: none, one or two symbols, a weight above 1, a weight of 0
TargetMaps == Maps({5}) \cup [{"A"} -> {0, 15}] \cup {[s \in Symbols |-> IF s = "A" THEN 0 ELSE 15]}

NoCall == [op |-> "init", sym |-> "", price |-> 0, size |-> 0, target |-> 0,
           price_map |-> EmptyMap, target_weights |-> EmptyMap, ret |-> 0, raised |-> FALSE]

\* Broker.__init__ (broker.py 67-93)
BrokerInit ==
    /\ cash \in InitCash
    /\ symbol = ""
    /\ positions = IF symbol # "" THEN Put(EmptyMap, symbol, Position) ELSE EmptyMap
    /\ last_prices = EmptyMap
    /\ trades = << >>
    /\ total_fees = 0
    /\ \E c \in Configs :
           /\ commission_rate = c[1]
           /\ tax_rate = c[2]
           /\ slippage = c[3]
           /\ min_commission = c[4]

NoTwin == [done |-> TRUE]

\* no DataFeed is used on its own, no strategy object and no database exist
NoFeedLog == feedlog = << >>
NoPeriodic ==
    /\ strategy = ""
    /\ rebalance_month_interval = 3
    /\ store = << >>
    /\ delist_date = EmptyMap
NoStrategy ==
    /\ NoPeriodic
    /\ symbols = << >>
    /\ start_date = 0
    /\ rebalance_year_interval = 1
    /\ _last_rebalance_period = << >>
    /\ rebalance_history = << >>
    /\ etf_daily = << >>
    /\ onbarlog = << >>
NoDb ==
    /\ table = << >>
    /\ index_exists = FALSE
    /\ dbcall = [op |-> "none", delete_null_keys |-> FALSE, rows |-> << >>, ret |-> 0]

\* no run() has been started
NoRun ==
    /\ equity_curve = << >>
    /\ mark_error_policy = "warn"
    /\ require_marks_when_positions = TRUE
    /\ has_hooks = FALSE
    /\ has_mark_prices = FALSE
    /\ pc = "none"
    /\ pending = "return"
    /\ raisedBy = ""
    /\ calls = << >>
    /\ barlog = << >>
    /\ twin = NoTwin

\* no engine is attached to the Broker
NoEngine ==
    /\ bars = << >>
    /\ _i = 0
    /\ NoRun

Init ==
    /\ BrokerInit
    /\ call = NoCall
    /\ pre = Self
    /\ nops = 0
    /\ NoEngine
    /\ NoFeedLog /\ NoStrategy /\ NoDb

\* the Broker becomes b
Store(b) ==
    /\ cash' = b.cash
    /\ positions' = b.positions
    /\ last_prices' = b.last_prices
    /\ trades' = b.trades
    /\ total_fees' = b.total_fees

\* the Broker becomes res.b; the call and the Broker it started from are recorded
Commit(res, c) ==
    /\ nops < MaxOps
    /\ nops' = nops + 1
    /\ Store(res.b)
    /\ pre' = Self
    /\ call' = [c EXCEPT !.ret = res.ret, !.raised = res.raised]
    /\ UNCHANGED <<configVars, engineVars, twin, auxVars>>

BuySym ==
    \E sym \in Symbols, price \in Prices, size \in Sizes :
        Commit(buy_sym(Self, DATE, sym, price, size),
               [NoCall EXCEPT !.op = "buy_sym", !.sym = sym, !.price = price, !.size = size])

BuyAllSym ==
    \E sym \in Symbols, price \in Prices :
        Commit(buy_all_sym(Self, DATE, sym, price),
               [NoCall EXCEPT !.op = "buy_all_sym", !.sym = sym, !.price = price])

SellSym ==
    \E sym \in Symbols, price \in Prices, size \in Sizes :
        Commit(sell_sym(Self, DATE, sym, price, size),
               [NoCall EXCEPT !.op = "sell_sym", !.sym = sym, !.price = price, !.size = size])

SellAllSym ==
    \E sym \in Symbols, price \in Prices :
        Commit(sell_all_sym(Self, DATE, sym, price),
               [NoCall EXCEPT !.op = "sell_all_sym", !.sym = sym, !.price = price])

OrderTargetPercentSym ==
    \E sym \in Symbols, price \in Prices, target \in Targets :
        Commit(order_target_percent_sym(Self, DATE, sym, price, target),
               [NoCall EXCEPT !.op = "order_target_percent_sym", !.sym = sym,
                              !.price = price, !.target = target])

RebalanceTargetPercents ==
    \E price_map \in PriceMaps, target_weights \in TargetMaps :
        \E order \in Orders(RebalanceSymbols(Self, target_weights)) :
            Commit(rebalance_target_percents(Self, DATE, price_map, target_weights, order),
                   [NoCall EXCEPT !.op = "rebalance_target_percents",
                                  !.price_map = price_map, !.target_weights = target_weights])

ForceWriteOff ==
    \E sym \in Symbols :
        Commit(force_write_off(Self, DATE, sym),
               [NoCall EXCEPT !.op = "force_write_off", !.sym = sym])

\* the marks a caller hands to update_marks: none, one symbol, both symbols
MarkInputs == {EmptyMap, [s \in {"A"} |-> Px(5)], [s \in Symbols |-> IF s = "A" THEN Px(10) ELSE 0]}

UpdateMarks ==
    \E price_map \in MarkInputs :
        Commit(Result(update_marks(Self, price_map), 0),
               [NoCall EXCEPT !.op = "update_marks", !.price_map = price_map])

Next ==
    \/ BuySym
    \/ BuyAllSym
    \/ SellSym
    \/ SellAllSym
    \/ OrderTargetPercentSym
    \/ RebalanceTargetPercents
    \/ ForceWriteOff
    \/ UpdateMarks

Spec == Init /\ [][Next]_vars

\* ------------------------------------- a longer session on one symbol
\* the same Broker driven for MaxSession calls with the orders of a
\* single-symbol strategy: buy, sell and buy-all of "A" at one price
MaxSession == 3
SessionPrices == {5}
SessionSizes == {1, MaxSize}

SessionCommit(res, c) ==
    /\ nops < MaxSession
    /\ nops' = nops + 1
    /\ Store(res.b)
    /\ pre' = Self
    /\ call' = [c EXCEPT !.ret = res.ret, !.raised = res.raised]
    /\ UNCHANGED <<configVars, engineVars, twin, auxVars>>

SessionBuySym ==
    \E price \in SessionPrices, size \in SessionSizes :
        SessionCommit(buy_sym(Self, DATE, "A", price, size),
                      [NoCall EXCEPT !.op = "buy_sym", !.sym = "A", !.price = price, !.size = size])

SessionSellSym ==
    \E price \in SessionPrices, size \in SessionSizes :
        SessionCommit(sell_sym(Self, DATE, "A", price, size),
                      [NoCall EXCEPT !.op = "sell_sym", !.sym = "A", !.price = price, !.size = size])

SessionBuyAllSym ==
    \E price \in SessionPrices :
        SessionCommit(buy_all_sym(Self, DATE, "A", price),
                      [NoCall EXCEPT !.op = "buy_all_sym", !.sym = "A", !.price = price])

SessionNext ==
    \/ SessionBuySym
    \/ SessionSellSym
    \/ SessionBuyAllSym

SessionSpec == Init /\ [][SessionNext]_vars

\* -------------------------------------------------------------- DataFeed
Bar(trade_date, open, close) == [trade_date |-> trade_date, open |-> open, close |-> close]

\* DataFeed.current / prev / step / reset / __len__ on a feed [bars, i]
feed_len(feed) == Len(feed.bars)
feed_current(feed) == feed.bars[feed.i + 1]
NoBar == [trade_date |-> 0, open |-> 0, close |-> 0]
\* prev that hands out the bar after the cursor
feed_prev_ahead(feed) == IF feed.i + 2 > Len(feed.bars) THEN NoBar ELSE feed.bars[feed.i + 2]
feed_prev(feed) == IF feed.i = 0 THEN NoBar ELSE feed.bars[feed.i]
\* step() that refuses one bar too early
feed_step_early(feed) ==
    IF feed.i + 2 >= Len(feed.bars) THEN [ok |-> FALSE, i |-> feed.i]
    ELSE [ok |-> TRUE, i |-> feed.i + 1]
feed_step(feed) ==
    IF feed.i + 1 >= Len(feed.bars) THEN [ok |-> FALSE, i |-> feed.i]
    ELSE [ok |-> TRUE, i |-> feed.i + 1]
\* reset() that leaves the cursor where it is
feed_reset_stay(feed) == feed.i
feed_reset(feed) == 0

Feed == [bars |-> bars, i |-> _i]

\* ------------------------------------------------------- BacktestEngine
\* what a call of the strategy's mark_prices did: hook.kind is "absent" (the
\* strategy has no such member), "returns" (with hook.marks) or "raises"
NoHook == [kind |-> "absent", marks |-> EmptyMap]

\* _collect_marks that re-raises under every policy
_collect_marks_alwaysraise(bar, hook, policy, default_symbol) ==
    LET raised == hook.kind = "raises"
        marks0 == IF hook.kind = "returns" THEN hook.marks ELSE EmptyMap
        marks == IF default_symbol # "" /\ default_symbol \notin DOMAIN marks0
                 THEN Put(marks0, default_symbol, Px(bar.close))
                 ELSE marks0
    IN  [raised |-> raised, marks |-> marks]

\* _collect_marks (engine.py 36-53): the marks, or the exception re-raised
_collect_marks(bar, hook, policy, default_symbol) ==
    LET raised == hook.kind = "raises" /\ policy = "raise"
        marks0 == IF hook.kind = "returns" THEN hook.marks ELSE EmptyMap
        marks == IF default_symbol # "" /\ default_symbol \notin DOMAIN marks0
                 THEN Put(marks0, default_symbol, Px(bar.close))
                 ELSE marks0
    IN  [raised |-> raised, marks |-> marks]

\* the test with a threshold of more than one share
AnyPosition_morethanone(b) == \E sym \in DOMAIN b.positions : b.positions[sym].size > 1
\* engine.py 73-75: any(p.size for p in self.broker.positions.values())
AnyPosition(b) == \E sym \in DOMAIN b.positions : b.positions[sym].size # 0

\* an iteration whose equity point is taken before update_marks
MarkAndRecord_stalepoint(b, bar, hook, policy, require, default_symbol) ==
    LET cm == _collect_marks(bar, hook, policy, default_symbol)
        empty == cm.marks = EmptyMap
        marks == IF empty /\ default_symbol # ""
                 THEN Put(EmptyMap, default_symbol, Px(bar.close))
                 ELSE cm.marks
        flagged == empty /\ default_symbol = "" /\ require /\ AnyPosition(b)
        b1 == update_marks(b, marks)
    IN  IF cm.raised THEN [raised |-> "mark_prices", b |-> b, flagged |-> FALSE, point |-> << >>]
        ELSE IF flagged /\ policy = "raise"
             THEN [raised |-> "empty_marks", b |-> b, flagged |-> TRUE, point |-> << >>]
        ELSE [raised |-> "", b |-> b1, flagged |-> flagged,
              point |-> <<[trade_date |-> bar.trade_date, equity |-> total_equity(b)]>>]

\* the rest of one loop iteration after on_bar returned (engine.py 69-89):
\* marks, the empty-marks guard, update_marks, the equity point
\* out.raised = "" when the iteration completed, else where it raised
MarkAndRecord(b, bar, hook, policy, require, default_symbol) ==
    LET cm == _collect_marks(bar, hook, policy, default_symbol)
        empty == cm.marks = EmptyMap
        marks == IF empty /\ default_symbol # ""
                 THEN Put(EmptyMap, default_symbol, Px(bar.close))
                 ELSE cm.marks
        flagged == empty /\ default_symbol = "" /\ require /\ AnyPosition(b)
        b1 == update_marks(b, marks)
    IN  IF cm.raised THEN [raised |-> "mark_prices", b |-> b, flagged |-> FALSE, point |-> << >>]
        ELSE IF flagged /\ policy = "raise"
             THEN [raised |-> "empty_marks", b |-> b, flagged |-> TRUE, point |-> << >>]
        ELSE [raised |-> "", b |-> b1, flagged |-> flagged,
              point |-> <<[trade_date |-> bar.trade_date, equity |-> total_equity(b1)]>>]

\* ------------------------------------------------- Engine specification
BarSeqs == UNION {[1..n -> BarOpens \X BarCloses] : n \in 0..MaxBars}
EngineConfig == <<1, 1, 1, 5 * Scale>>
\* the initial_cash run_backtest hands to the Broker (runner.py 146-156)
initial_cash == 100 * Scale

EngineInit ==
    /\ cash = initial_cash
    /\ symbol \in {"", "A"}
    /\ positions = IF symbol # "" THEN Put(EmptyMap, symbol, Position) ELSE EmptyMap
    /\ last_prices = EmptyMap
    /\ trades = << >>
    /\ total_fees = 0
    /\ commission_rate = EngineConfig[1]
    /\ tax_rate = EngineConfig[2]
    /\ slippage = EngineConfig[3]
    /\ min_commission = EngineConfig[4]
    /\ call = NoCall
    /\ pre = Self
    /\ nops = 0
    /\ \E bs \in BarSeqs : bars = [i \in DOMAIN bs |-> Bar(Dates[i], bs[i][1], bs[i][2])]
    /\ _i = 0
    /\ equity_curve = << >>
    /\ mark_error_policy \in {"raise", "warn", "ignore"}
    /\ require_marks_when_positions \in BOOLEAN
    /\ has_hooks \in BOOLEAN
    /\ has_mark_prices \in BOOLEAN
    /\ pc = "idle"
    /\ pending = "return"
    /\ raisedBy = ""
    /\ calls = << >>
    /\ barlog = << >>
    /\ twin = NoTwin
    /\ NoFeedLog /\ NoStrategy /\ NoDb

\* run() up to the try block (engine.py 56-64): reset, on_start, the length test
RunStart ==
    /\ pc = "idle"
    /\ _i' = feed_reset(Feed)
    /\ equity_curve' = << >>
    /\ calls' = IF has_hooks THEN Append(calls, "on_start") ELSE calls
    /\ \E start_raises \in {FALSE, has_hooks} :
          IF start_raises
          THEN pc' = "raised" /\ raisedBy' = "on_start"
          ELSE /\ pc' = IF feed_len(Feed) = 0 THEN "finally" ELSE "on_bar"
               /\ raisedBy' = raisedBy
    /\ pending' = "return"
    /\ UNCHANGED <<brokerVars, configVars, call, pre, nops, engineConfigVars, barlog, twin, auxVars>>

\* what on_bar does with the Broker: nothing, or one order at the bar's open
StrategyOrders == {"none", "buy_sym", "buy_all_sym", "sell_all_sym"}

StrategyOrder(b, bar, kind, sym) ==
    IF kind = "buy_sym" THEN buy_sym(b, bar.trade_date, sym, bar.open, 1)
    ELSE IF kind = "buy_all_sym" THEN buy_all_sym(b, bar.trade_date, sym, bar.open)
    ELSE IF kind = "sell_all_sym" THEN sell_all_sym(b, bar.trade_date, sym, bar.open)
    ELSE Result(b, 0)

\* strategy.on_bar(bar, feed, broker) (engine.py 66-67)
OnBar ==
    /\ pc = "on_bar"
    /\ calls' = Append(calls, "on_bar")
    /\ \/ \E kind \in StrategyOrders, sym \in Symbols :
             LET res == StrategyOrder(Self, feed_current(Feed), kind, sym)
             IN  /\ Store(res.b)
                 /\ pre' = Self
                 /\ call' = [NoCall EXCEPT !.op = kind, !.sym = sym, !.ret = res.ret]
                 /\ nops' = IF kind = "none" THEN nops ELSE nops + 1
                 /\ pc' = "marks"
                 /\ UNCHANGED <<pending, raisedBy>>
       \/ /\ pc' = "finally"
          /\ pending' = "raise"
          /\ raisedBy' = "on_bar"
          /\ UNCHANGED <<brokerVars, call, pre, nops>>
    /\ UNCHANGED <<configVars, engineConfigVars, _i, equity_curve, barlog, twin, auxVars>>

MarkMaps(bar) == {EmptyMap, [s \in {"B"} |-> Px(bar.close)], [s \in Symbols |-> Px(bar.close)]}
HookOutcomes(bar) ==
    IF has_mark_prices
    THEN {[kind |-> "returns", marks |-> m] : m \in MarkMaps(bar)} \cup {[kind |-> "raises", marks |-> EmptyMap]}
    ELSE {NoHook}

\* the rest of the iteration (engine.py 69-89): collect the marks, guard,
\* update_marks, append the equity point, step the feed
Marks ==
    /\ pc = "marks"
    /\ \E hook \in HookOutcomes(feed_current(Feed)) :
          LET bar == feed_current(Feed)
              out == MarkAndRecord(Self, bar, hook, mark_error_policy,
                                   require_marks_when_positions, symbol)
              st == feed_step(Feed)
          IN  /\ calls' = IF has_mark_prices THEN Append(calls, "mark_prices") ELSE calls
              /\ barlog' = Append(barlog, [i |-> _i, hook |-> hook, held |-> positions,
                                           flagged |-> out.flagged])
              /\ Store(out.b)
              /\ equity_curve' = equity_curve \o out.point
              /\ IF out.raised # ""
                 THEN /\ pc' = "finally"
                      /\ pending' = "raise"
                      /\ raisedBy' = out.raised
                      /\ _i' = _i
                 ELSE /\ _i' = st.i
                      /\ pc' = IF st.ok THEN "on_bar" ELSE "finally"
                      /\ UNCHANGED <<pending, raisedBy>>
    /\ UNCHANGED <<configVars, call, pre, nops, engineConfigVars, twin, auxVars>>

\* on_end called on the normal path only, as without the try/finally
Finally_noguarantee ==
    /\ pc = "finally"
    /\ calls' = IF has_hooks /\ pending = "return" THEN Append(calls, "on_end") ELSE calls
    /\ \E end_raises \in {FALSE, has_hooks /\ pending = "return"} :
          IF end_raises
          THEN pc' = "raised" /\ raisedBy' = "on_end"
          ELSE /\ pc' = IF pending = "raise" THEN "raised" ELSE "returned"
               /\ raisedBy' = raisedBy
    /\ UNCHANGED <<brokerVars, configVars, call, pre, nops, engineConfigVars,
                   _i, equity_curve, pending, barlog, twin, auxVars>>

\* the finally block (engine.py 91-93), then the return or the re-raise
Finally ==
    /\ pc = "finally"
    /\ calls' = IF has_hooks THEN Append(calls, "on_end") ELSE calls
    /\ \E end_raises \in {FALSE, has_hooks} :
          IF end_raises
          THEN pc' = "raised" /\ raisedBy' = "on_end"
          ELSE /\ pc' = IF pending = "raise" THEN "raised" ELSE "returned"
               /\ raisedBy' = raisedBy
    /\ UNCHANGED <<brokerVars, configVars, call, pre, nops, engineConfigVars,
                   _i, equity_curve, pending, barlog, twin, auxVars>>

EngineNext ==
    \/ RunStart
    \/ OnBar
    \/ Marks
    \/ Finally

EngineSpec == EngineInit /\ [][EngineNext]_vars

\* ------------------------------------- two runs, one on truncated bars
\* what a strategy that reads bars only through the cursor can see when it
\* is called: the current bar, the previous bar, the Broker
Observe(feed, b) == <<feed_current(feed), feed_prev(feed), b>>

Decisions == StrategyOrders \X Symbols

\* one loop iteration of run() (engine.py 66-89) on a feed and a Broker,
\* the strategy deciding d in on_bar and its mark_prices doing hook
Iteration(feed, b, d, hook, policy, require, default_symbol) ==
    LET bar == feed_current(feed)
        b1 == StrategyOrder(b, bar, d[1], d[2]).b
        out == MarkAndRecord(b1, bar, hook, policy, require, default_symbol)
        st == feed_step(feed)
    IN  [b |-> out.b, point |-> out.point, ok |-> st.ok, i |-> st.i]

TwinFeed == [bars |-> twin.bars, i |-> twin.i]

TwinInit ==
    /\ cash = initial_cash
    /\ symbol \in {"", "A"}
    /\ positions = IF symbol # "" THEN Put(EmptyMap, symbol, Position) ELSE EmptyMap
    /\ last_prices = EmptyMap
    /\ trades = << >>
    /\ total_fees = 0
    /\ commission_rate = EngineConfig[1]
    /\ tax_rate = EngineConfig[2]
    /\ slippage = EngineConfig[3]
    /\ min_commission = EngineConfig[4]
    /\ call = NoCall
    /\ pre = Self
    /\ nops = 0
    /\ \E bs \in BarSeqs \ {<< >>} : bars = [i \in DOMAIN bs |-> Bar(Dates[i], bs[i][1], bs[i][2])]
    /\ _i = 0
    /\ equity_curve = << >>
    /\ mark_error_policy = "warn"
    /\ require_marks_when_positions = TRUE
    /\ has_hooks = FALSE
    /\ has_mark_prices \in BOOLEAN
    /\ pc = "idle"
    /\ pending = "return"
    /\ raisedBy = ""
    /\ calls = << >>
    /\ barlog = << >>
    /\ \E k \in 1..Len(bars) :
          twin = [bars |-> SubSeq(bars, 1, k), i |-> 0, b |-> Self,
                  equity_curve |-> << >>, done |-> FALSE, same |-> TRUE]
    /\ NoFeedLog /\ NoStrategy /\ NoDb

\* both runs start: feed.reset(), an empty curve (engine.py 56-57)
TwinStart ==
    /\ pc = "idle"
    /\ _i' = feed_reset(Feed)
    /\ equity_curve' = << >>
    /\ twin' = [twin EXCEPT !.i = feed_reset(TwinFeed), !.equity_curve = << >>]
    /\ pc' = "on_bar"
    /\ UNCHANGED <<brokerVars, configVars, call, pre, nops, engineConfigVars,
                   pending, raisedBy, calls, barlog, auxVars>>

\* both runs do the iteration of the same bar index.  The strategy is one
\* deterministic program: having observed the same in both runs it decides
\* the same in both; otherwise its two decisions are unrelated.
TwinBar ==
    /\ pc = "on_bar"
    /\ ~twin.done
    /\ \E dA \in Decisions, dB \in Decisions :
          LET sameBar == twin.same /\ Observe(Feed, Self) = Observe(TwinFeed, twin.b)
              barA == feed_current(Feed)
              barB == feed_current(TwinFeed)
              bA == StrategyOrder(Self, barA, dA[1], dA[2]).b
              bB == StrategyOrder(twin.b, barB, dB[1], dB[2]).b
              sameMarks == sameBar /\ Observe(Feed, bA) = Observe(TwinFeed, bB)
          IN  /\ sameBar => dA = dB
              /\ \E hA \in HookOutcomes(barA), hB \in HookOutcomes(barB) :
                    LET itA == Iteration(Feed, Self, dA, hA, mark_error_policy,
                                         require_marks_when_positions, symbol)
                        itB == Iteration(TwinFeed, twin.b, dB, hB, mark_error_policy,
                                         require_marks_when_positions, symbol)
                    IN  /\ sameMarks => hA = hB
                        /\ Store(itA.b)
                        /\ equity_curve' = equity_curve \o itA.point
                        /\ _i' = itA.i
                        /\ pc' = IF itA.ok THEN "on_bar" ELSE "returned"
                        /\ twin' = [twin EXCEPT !.b = itB.b, !.i = itB.i,
                                                !.equity_curve = twin.equity_curve \o itB.point,
                                                !.done = ~itB.ok, !.same = sameMarks]
    /\ UNCHANGED <<configVars, call, pre, nops, engineConfigVars,
                   pending, raisedBy, calls, barlog, auxVars>>

\* the run on the full bars goes on after the truncated run is over
TwinRest ==
    /\ pc = "on_bar"
    /\ twin.done
    /\ \E d \in Decisions, hook \in HookOutcomes(feed_current(Feed)) :
          LET it == Iteration(Feed, Self, d, hook, mark_error_policy,
                              require_marks_when_positions, symbol)
          IN  /\ Store(it.b)
              /\ equity_curve' = equity_curve \o it.point
              /\ _i' = it.i
              /\ pc' = IF it.ok THEN "on_bar" ELSE "returned"
    /\ UNCHANGED <<configVars, call, pre, nops, engineConfigVars,
                   pending, raisedBy, calls, barlog, twin, auxVars>>

TwinNext ==
    \/ TwinStart
    \/ TwinBar
    \/ TwinRest

TwinSpec == TwinInit /\ [][TwinNext]_vars

\* ------------------------------------- a DataFeed stepped and reset
\* DataFeed.__init__ (data.py 17-19) on any bars, also none
FeedInit ==
    /\ BrokerInit
    /\ commission_rate = EngineConfig[1] /\ min_commission = EngineConfig[4]
    /\ call = NoCall
    /\ pre = Self
    /\ nops = 0
    /\ NoRun
    /\ NoStrategy /\ NoDb
    /\ feedlog = << >>
    /\ \E bs \in BarSeqs : bars = [i \in DOMAIN bs |-> Bar(Dates[i], bs[i][1], bs[i][2])]
    /\ _i = 0

FeedFrame ==
    UNCHANGED <<brokerVars, configVars, call, pre, nops, engineConfigVars, equity_curve,
                pc, pending, raisedBy, calls, barlog, twin, strategyVars, periodicVars,
                dbVars>>

FeedStep ==
    /\ Len(feedlog) < MaxFeedOps
    /\ LET st == feed_step(Feed)
       IN  /\ _i' = st.i
           /\ feedlog' = Append(feedlog, [op |-> "step", before |-> _i, after |-> st.i, ret |-> st.ok])
    /\ FeedFrame

FeedReset ==
    /\ Len(feedlog) < MaxFeedOps
    /\ _i' = feed_reset(Feed)
    /\ feedlog' = Append(feedlog, [op |-> "reset", before |-> _i, after |-> feed_reset(Feed), ret |-> FALSE])
    /\ FeedFrame

FeedNext ==
    \/ FeedStep
    \/ FeedReset

FeedSpec == FeedInit /\ [][FeedNext]_vars

\* ------------------------------------- ETFEqualWeightAnnualStrategy
\* _period_key: "Y" and the year of the date floor-divided by the interval
_period_key(date) == <<"Y", (date \div 10000) \div rebalance_year_interval>>

\* a day on or after start_date is a rebalance day, whatever the period
_is_rebalance_day_anyperiod(bar) ==
    IF bar.trade_date < start_date THEN FALSE ELSE TRUE
\* _is_rebalance_day (etf_equal_weight_annual.py 113-117)
_is_rebalance_day(bar) ==
    IF bar.trade_date < start_date THEN FALSE
    ELSE _period_key(bar.trade_date) # _last_rebalance_period

\* the set of the strategy's symbols
SymbolSet == {symbols[k] : k \in DOMAIN symbols}

\* _load_opens for the date of bar n (1-based): the symbols with a row and an
\* open above 0.  Prices are taken unadjusted (every adj_factor 1.0); the
\* cache never answers, the dates of a calendar being distinct.
_load_opens(n) ==
    [sym \in {x \in SymbolSet : etf_daily[n][x] > 0} |-> etf_daily[n][sym]]

\* _load_marks_close for the date of bar n: per symbol the close of its
\* latest row up to that date
LatestRow(n, sym) ==
    LET rows == {j \in 1..n : etf_daily[j][sym] > 0}
    IN  IF rows = {} THEN 0 ELSE CHOOSE j \in rows : \A k \in rows : k <= j
_load_marks_close(n, syms) ==
    [sym \in {x \in syms : LatestRow(n, x) # 0} |-> Px(etf_daily[LatestRow(n, sym)][sym])]

\* the dates of a set of days in calendar order
RECURSIVE Calendar(_)
Calendar(days) ==
    IF days = {} THEN << >>
    ELSE LET d == CHOOSE x \in days : \A y \in days : x <= y
         IN  <<d>> \o Calendar(days \ {d})

\* run_backtest(bars, strategy, symbol="") on a calendar and a price store
EtfInit ==
    /\ cash = initial_cash
    /\ symbol = ""
    /\ positions = EmptyMap
    /\ last_prices = EmptyMap
    /\ trades = << >>
    /\ total_fees = 0
    /\ commission_rate = EngineConfig[1]
    /\ tax_rate = EngineConfig[2]
    /\ slippage = EngineConfig[3]
    /\ min_commission = EngineConfig[4]
    /\ call = NoCall
    /\ pre = Self
    /\ nops = 0
    /\ \E days \in SUBSET EtfDates :
          /\ Cardinality(days) \in 1..MaxEtfBars
          /\ bars = [i \in 1..Cardinality(days) |-> Bar(Calendar(days)[i], 10, 10)]
    /\ etf_daily \in [DOMAIN bars -> [Symbols -> EtfPrices]]
    /\ _i = 0
    /\ equity_curve = << >>
    /\ mark_error_policy = "warn"
    /\ require_marks_when_positions = TRUE
    /\ has_hooks = TRUE
    /\ has_mark_prices = TRUE
    /\ pc = "idle"
    /\ pending = "return"
    /\ raisedBy = ""
    /\ calls = << >>
    /\ barlog = << >>
    /\ twin = NoTwin
    /\ symbols = <<"A", "B">>
    /\ start_date \in StartDates
    /\ rebalance_year_interval \in YearIntervals
    /\ _last_rebalance_period = << >>
    /\ rebalance_history = << >>
    /\ onbarlog = << >>
    /\ NoPeriodic
    /\ NoFeedLog /\ NoDb

EtfFrame ==
    UNCHANGED <<configVars, nops, engineConfigVars, pending, raisedBy, barlog, twin,
                symbols, start_date, rebalance_year_interval, etf_daily, feedVars,
                periodicVars, dbVars>>

\* run() up to the loop: reset, on_start (which opens the price store)
EtfRunStart ==
    /\ pc = "idle"
    /\ _i' = feed_reset(Feed)
    /\ equity_curve' = << >>
    /\ calls' = Append(calls, "on_start")
    /\ pc' = "on_bar"
    /\ UNCHANGED <<brokerVars, call, pre, _last_rebalance_period, rebalance_history, onbarlog>>
    /\ EtfFrame

\* on_bar (etf_equal_weight_annual.py 209-225); the equal weight
\* 1.0 / len(symbols) is taken in whole RateDen-ths
EtfOnBar ==
    /\ pc = "on_bar"
    /\ calls' = Append(calls, "on_bar")
    /\ pc' = "marks"
    /\ LET bar == feed_current(Feed)
           targets == [sym \in SymbolSet |-> RateDen \div Len(symbols)]
           open_map == _load_opens(_i + 1)
       IN  IF ~_is_rebalance_day(bar) \/ (\E sym \in SymbolSet : sym \notin DOMAIN open_map)
           THEN /\ onbarlog' = Append(onbarlog, [i |-> _i, ordered |-> FALSE])
                /\ UNCHANGED <<brokerVars, call, pre, _last_rebalance_period, rebalance_history>>
           ELSE \E order \in Orders(RebalanceSymbols(Self, targets)) :
                   LET res == rebalance_target_percents(Self, bar.trade_date, open_map, targets, order)
                   IN  /\ Store(res.b)
                       /\ pre' = Self
                       /\ call' = [NoCall EXCEPT !.op = "rebalance_target_percents",
                                                 !.price_map = open_map,
                                                 !.target_weights = targets, !.ret = res.ret]
                       /\ _last_rebalance_period' = _period_key(bar.trade_date)
                       /\ rebalance_history' =
                             Append(rebalance_history,
                                    [rebalance_date |-> bar.trade_date, targets |-> targets,
                                     open_prices |-> open_map])
                       /\ onbarlog' = Append(onbarlog, [i |-> _i, ordered |-> TRUE])
    /\ UNCHANGED <<_i, equity_curve>>
    /\ EtfFrame

\* the rest of the iteration (engine.py 69-89) with the strategy's
\* mark_prices (etf_equal_weight_annual.py 227-229); on_end after the last bar
EtfMarks ==
    /\ pc = "marks"
    /\ LET bar == feed_current(Feed)
           hook == [kind |-> "returns", marks |-> _load_marks_close(_i + 1, DOMAIN positions)]
           out == MarkAndRecord(Self, bar, hook, mark_error_policy,
                                require_marks_when_positions, symbol)
           st == feed_step(Feed)
       IN  /\ Store(out.b)
           /\ equity_curve' = equity_curve \o out.point
           /\ _i' = st.i
           /\ pc' = IF st.ok THEN "on_bar" ELSE "returned"
           /\ calls' = IF st.ok THEN Append(calls, "mark_prices")
                                ELSE calls \o <<"mark_prices", "on_end">>
    /\ UNCHANGED <<call, pre, _last_rebalance_period, rebalance_history, onbarlog>>
    /\ EtfFrame

EtfNext ==
    \/ EtfRunStart
    \/ EtfOnBar
    \/ EtfMarks

EtfSpec == EtfInit /\ [][EtfNext]_vars

\* ------------- LowPEQuarterlyStrategy / AHPremiumQuarterlyStrategy
\* Both strategies trade one A/H pair: "A" is its A-share (.SH / .SZ), "B" its
\* H-share (.HK).  The database has one price per symbol and date, read as
\* open and as close, every adj_factor being 1.0 and the HKD rate 1.
MaxPeriodBars == 3
PeriodDates == {20200102, 20200103, 20200106, 20200401, 20200402}
PeriodStartDates == {20200101, 20200103}
DelistDates == {0, 20200402}
Day(records, fx, a, b) ==
    [records |-> records, fx |-> fx, price |-> [sym \in Symbols |-> IF sym = "A" THEN a ELSE b]]
\* what the database may hold for one date: everything, no PE records, no FX
\* rates, no prices, no price of the H-share
DataDays == {Day(TRUE, TRUE, 10, 10), Day(FALSE, TRUE, 10, 10), Day(TRUE, FALSE, 10, 10),
             Day(TRUE, TRUE, 0, 0), Day(TRUE, TRUE, 10, 0)}
ASyms(syms) == syms \cap {"A"}
HSyms(syms) == syms \cap {"B"}

\* _period_key of both strategies: the year and (month - 1) // interval
Periodic_period_key(date) ==
    <<"P", date \div 10000, (((date \div 100) % 100) - 1) \div rebalance_month_interval>>

\* LowPEQuarterlyStrategy._is_rebalance_day (low_pe_quarterly.py 161-167)
LowPE_is_rebalance_day(bar) ==
    IF bar.trade_date < start_date THEN FALSE
    ELSE Periodic_period_key(bar.trade_date) # _last_rebalance_period

\* AHPremiumQuarterlyStrategy._is_quarter_rebalance_day
\* (ah_premium_quarterly.py 282-291); prev = NoBar stands for feed.prev is None
AH_is_quarter_rebalance_day(bar, prev) ==
    IF bar.trade_date < start_date THEN FALSE
    ELSE LET pk == Periodic_period_key(bar.trade_date)
         IN  IF pk # _last_rebalance_period
             THEN prev = NoBar \/ Periodic_period_key(prev.trade_date) # pk
             ELSE FALSE

\* _load_hk_to_cny_rate for the date of bar n: the rates of the latest date up
\* to it that has both
HkToCnyRate(n) == \E j \in 1..n : store[j].fx

Delisted(sym, date) ==
    sym \in DOMAIN delist_date /\ delist_date[sym] # 0 /\ delist_date[sym] <= date

\* the head of on_bar: every held symbol whose delist_date has come is
\* written off, the A-shares before the H-shares
WriteOffDelisted(b, date) ==
    LET b1 == IF "A" \in DOMAIN b.positions /\ Delisted("A", date)
              THEN force_write_off(b, date, "A").b ELSE b
    IN  IF "B" \in DOMAIN b1.positions /\ Delisted("B", date)
        THEN force_write_off(b1, date, "B").b ELSE b1

\* _load_opens of both strategies for the date of bar n: nothing when an
\* H-share is asked for and there is no rate, else the symbols with a row.
\* The cache never answers, on_bar asking once per date.
Periodic_load_opens(n, syms) ==
    IF HSyms(syms) # {} /\ ~HkToCnyRate(n) THEN EmptyMap
    ELSE [sym \in {x \in syms : store[n].price[x] > 0} |-> store[n].price[sym]]

\* LowPEQuarterlyStrategy.compute_targets with a_k = h_k = 1 for an attempt on
\* bar n >= 2, the signal date being the date of bar n - 1 (taken as the
\* latest trade date of both markets up to it): the A-share is picked when
\* its PE record exists and it trades on bar n; the H-share when the rate,
\* the PE record and both closes of the signal date exist and it trades on
\* bar n undelisted; no targets unless both legs are there
LowPE_compute_targets(n) ==
    LET date == bars[n].trade_date
        a_recs == /\ store[n - 1].records
                  /\ ~Delisted("A", date)
                  /\ store[n].price["A"] > 0
        h_recs == /\ HkToCnyRate(n - 1)
                  /\ store[n - 1].records
                  /\ store[n - 1].price["A"] > 0
                  /\ store[n - 1].price["B"] > 0
                  /\ store[n].price["B"] > 0
                  /\ ~Delisted("B", date)
    IN  IF a_recs /\ h_recs THEN [sym \in Symbols |-> RateDen \div 2] ELSE EmptyMap

\* AHPremiumQuarterlyStrategy: _load_premium_for_date of the date of bar n - 1
\* and the targets on_bar makes of it with top_k = bottom_k = 1 and
\* capital_split 0.5: a premium record needs the rates and both closes of
\* that very date
AH_targets(n) ==
    LET premium_recs == /\ store[n - 1].fx
                        /\ store[n - 1].price["A"] > 0
                        /\ store[n - 1].price["B"] > 0
    IN  IF premium_recs
        THEN [sym \in Symbols |-> IF sym = "A" THEN RateDen - RateDen \div 2 ELSE RateDen \div 2]
        ELSE EmptyMap

\* AHPremiumQuarterlyStrategy.mark_prices (ah_premium_quarterly.py 346-384)
AH_mark_prices(n, b) ==
    LET syms == DOMAIN b.positions
    IN  IF HSyms(syms) # {} /\ ~HkToCnyRate(n) THEN EmptyMap
        ELSE [sym \in {x \in syms : store[n].price[x] > 0} |-> Px(store[n].price[sym])]

\* LowPEQuarterlyStrategy.mark_prices (low_pe_quarterly.py 325-391): without a
\* rate the A-share rows alone; else the rows, and for a symbol without a row
\* its last mark or else its avg_price
LowPE_mark_prices(n, b) ==
    LET syms == DOMAIN b.positions
        rows(S) == {x \in S : store[n].price[x] > 0}
        kept == {x \in syms \ rows(syms) :
                    x \in DOMAIN b.last_prices \/ b.positions[x].avg_price.n > 0}
    IN  IF HSyms(syms) # {} /\ ~HkToCnyRate(n)
        THEN [sym \in rows(ASyms(syms)) |-> Px(store[n].price[sym])]
        ELSE [sym \in rows(syms) \cup kept |->
                 IF sym \in rows(syms) THEN Px(store[n].price[sym])
                 ELSE IF sym \in DOMAIN b.last_prices THEN b.last_prices[sym]
                 ELSE b.positions[sym].avg_price.n \div b.positions[sym].avg_price.d]

IsLowPE == strategy = "LowPEQuarterlyStrategy"

\* BacktestEngine(feed, Broker(cash), strategy) on a calendar and a database
PeriodicInit ==
    /\ cash = initial_cash
    /\ symbol = ""
    /\ positions = EmptyMap
    /\ last_prices = EmptyMap
    /\ trades = << >>
    /\ total_fees = 0
    /\ commission_rate = EngineConfig[1]
    /\ tax_rate = EngineConfig[2]
    /\ slippage = EngineConfig[3]
    /\ min_commission = EngineConfig[4]
    /\ call = NoCall
    /\ pre = Self
    /\ nops = 0
    /\ \E days \in SUBSET PeriodDates :
          /\ Cardinality(days) \in 1..MaxPeriodBars
          /\ bars = [i \in 1..Cardinality(days) |-> Bar(Calendar(days)[i], 10, 10)]
    /\ store \in [DOMAIN bars -> DataDays]
    /\ delist_date \in {[sym \in Symbols |-> IF sym = "B" THEN d ELSE 0] : d \in DelistDates}
    /\ _i = 0
    /\ equity_curve = << >>
    /\ mark_error_policy = "warn"
    /\ require_marks_when_positions = TRUE
    /\ strategy \in {"LowPEQuarterlyStrategy", "AHPremiumQuarterlyStrategy"}
    /\ has_hooks = IsLowPE
    /\ has_mark_prices = TRUE
    /\ pc = "idle"
    /\ pending = "return"
    /\ raisedBy = ""
    /\ calls = << >>
    /\ barlog = << >>
    /\ twin = NoTwin
    /\ rebalance_month_interval = 3
    /\ start_date \in PeriodStartDates
    /\ _last_rebalance_period = << >>
    /\ rebalance_history = << >>
    /\ onbarlog = << >>
    /\ symbols = << >>
    /\ rebalance_year_interval = 1
    /\ etf_daily = << >>
    /\ NoFeedLog /\ NoDb

PeriodicFrame ==
    UNCHANGED <<configVars, nops, engineConfigVars, pending, raisedBy, barlog, twin,
                symbols, start_date, rebalance_year_interval, etf_daily, feedVars,
                periodicVars, dbVars>>

\* run() up to the loop: reset, on_start where the strategy has one
PeriodicRunStart ==
    /\ pc = "idle"
    /\ _i' = feed_reset(Feed)
    /\ equity_curve' = << >>
    /\ calls' = IF has_hooks THEN Append(calls, "on_start") ELSE calls
    /\ pc' = "on_bar"
    /\ UNCHANGED <<brokerVars, call, pre, _last_rebalance_period, rebalance_history, onbarlog>>
    /\ PeriodicFrame

\* on_bar (low_pe_quarterly.py 591-660, ah_premium_quarterly.py 387-503).
\* onbarlog gets [i, trade_date, attempted, ordered]: whether the rebalance-day
\* test let the bar through, whether the rebalance was made.
PeriodicOnBar ==
    /\ pc = "on_bar"
    /\ calls' = Append(calls, "on_bar")
    /\ pc' = "marks"
    /\ LET bar == feed_current(Feed)
           prev_bar == feed_prev(Feed)
           n == _i + 1
           b0 == WriteOffDelisted(Self, bar.trade_date)
           due == IF IsLowPE THEN LowPE_is_rebalance_day(bar)
                             ELSE AH_is_quarter_rebalance_day(bar, prev_bar)
           targets == IF ~due \/ prev_bar = NoBar THEN EmptyMap
                      ELSE IF IsLowPE THEN LowPE_compute_targets(n) ELSE AH_targets(n)
           price_map == IF targets = EmptyMap THEN EmptyMap
                        ELSE Periodic_load_opens(n, (DOMAIN targets) \cup (DOMAIN b0.positions))
           entry(ordered) == [i |-> _i, trade_date |-> bar.trade_date,
                              attempted |-> due, ordered |-> ordered]
       IN  IF price_map = EmptyMap
           THEN /\ Store(b0)
                /\ pre' = IF b0 = Self THEN pre ELSE Self
                /\ call' = IF b0 = Self THEN call ELSE [NoCall EXCEPT !.op = "force_write_off"]
                /\ onbarlog' = Append(onbarlog, entry(FALSE))
                /\ UNCHANGED <<_last_rebalance_period, rebalance_history>>
           ELSE \E order \in Orders(RebalanceSymbols(b0, targets)) :
                   LET res == rebalance_target_percents(b0, bar.trade_date, price_map, targets, order)
                   IN  /\ Store(res.b)
                       /\ pre' = b0
                       /\ call' = [NoCall EXCEPT !.op = "rebalance_target_percents",
                                                 !.price_map = price_map,
                                                 !.target_weights = targets, !.ret = res.ret]
                       /\ _last_rebalance_period' = Periodic_period_key(bar.trade_date)
                       /\ rebalance_history' =
                             Append(rebalance_history,
                                    [rebalance_date |-> bar.trade_date,
                                     signal_date |-> prev_bar.trade_date, targets |-> targets])
                       /\ onbarlog' = Append(onbarlog, entry(TRUE))
    /\ UNCHANGED <<_i, equity_curve>>
    /\ PeriodicFrame

\* the rest of the iteration (engine.py 69-89) with the strategy's
\* mark_prices; on_end, where the strategy has one, after the last bar
PeriodicMarks ==
    /\ pc = "marks"
    /\ LET bar == feed_current(Feed)
           hook == [kind |-> "returns",
                    marks |-> IF IsLowPE THEN LowPE_mark_prices(_i + 1, Self)
                                         ELSE AH_mark_prices(_i + 1, Self)]
           out == MarkAndRecord(Self, bar, hook, mark_error_policy,
                                require_marks_when_positions, symbol)
           st == feed_step(Feed)
       IN  /\ Store(out.b)
           /\ equity_curve' = equity_curve \o out.point
           /\ _i' = st.i
           /\ pc' = IF st.ok THEN "on_bar" ELSE "returned"
           /\ calls' = IF st.ok \/ ~has_hooks THEN Append(calls, "mark_prices")
                                              ELSE calls \o <<"mark_prices", "on_end">>
    /\ UNCHANGED <<call, pre, _last_rebalance_period, rebalance_history, onbarlog>>
    /\ PeriodicFrame

PeriodicNext ==
    \/ PeriodicRunStart
    \/ PeriodicOnBar
    \/ PeriodicMarks

PeriodicSpec == PeriodicInit /\ [][PeriodicNext]_vars

\* ------------------------------------------------------ sqlite_utils
\* "c" IS NULL OR "c" = '' for some key column c (sqlite_utils.py 59, 85)
NullOrEmptyKey(row) == row.a = NULL \/ row.a = "" \/ row.b = NULL \/ row.b = ""
KeepRow(row) == ~NullOrEmptyKey(row)
\* DELETE FROM table WHERE <a key column is NULL or ''>
DeleteNullKeys(rows) == SelectSeq(rows, KeepRow)

\* CREATE UNIQUE INDEX fails when two rows agree on every key column, a
\* NULL agreeing with nothing, another NULL included
SqlDistinct(r1, r2) ==
    \/ r1.a = NULL \/ r1.b = NULL \/ r2.a = NULL \/ r2.b = NULL
    \/ r1.a # r2.a \/ r1.b # r2.b
IntegrityError(rows) ==
    \E m, n \in DOMAIN rows : m # n /\ ~SqlDistinct(rows[m], rows[n])

\* SELECT MIN(rowid) FROM table GROUP BY a, b: GROUP BY puts the NULLs of
\* a column into one group
MinRowids(rows) ==
    {rows[m].rowid : m \in {k \in DOMAIN rows :
        \A n \in DOMAIN rows :
            (rows[n].a = rows[k].a /\ rows[n].b = rows[k].b) => rows[k].rowid <= rows[n].rowid}}

\* dedupe_table (sqlite_utils.py 45-72): the rows left and the count returned
dedupe_table(rows, delete_null_keys) ==
    LET rows1 == IF delete_null_keys THEN DeleteNullKeys(rows) ELSE rows
        InMin(row) == row.rowid \in MinRowids(rows1)
        rows2 == SelectSeq(rows1, InMin)
    IN  [rows |-> rows2, ret |-> Len(rows) - Len(rows2)]

\* ensure_unique_index_with_dedupe (sqlite_utils.py 75-91); CREATE UNIQUE
\* INDEX IF NOT EXISTS does nothing when the index exists
ensure_unique_index_with_dedupe(rows, has_index, delete_null_keys) ==
    LET rows1 == IF delete_null_keys THEN DeleteNullKeys(rows) ELSE rows
    IN  IF has_index \/ ~IntegrityError(rows1) THEN rows1
        ELSE dedupe_table(rows1, delete_null_keys).rows

\* a table of up to MaxRows rows with rowids 1, 2, ...; where the unique
\* index exists already the rows comply with it
DbInit ==
    /\ BrokerInit
    /\ commission_rate = EngineConfig[1] /\ min_commission = EngineConfig[4]
    /\ call = NoCall
    /\ pre = Self
    /\ nops = 0
    /\ NoEngine
    /\ NoFeedLog /\ NoStrategy
    /\ \E n \in 0..MaxRows :
          \E keys \in [1..n -> KeyValues] :
              table = [k \in 1..n |-> [rowid |-> k, a |-> keys[k].a, b |-> keys[k].b]]
    /\ index_exists \in {FALSE, ~IntegrityError(table)}
    /\ dbcall = [op |-> "none", delete_null_keys |-> FALSE, rows |-> table, ret |-> 0]

DbFrame ==
    UNCHANGED <<brokerVars, configVars, call, pre, nops, engineVars, twin, feedVars,
                strategyVars, periodicVars>>

EnsureUniqueIndexWithDedupe ==
    /\ \E delete_null_keys \in BOOLEAN :
          /\ table' = ensure_unique_index_with_dedupe(table, index_exists, delete_null_keys)
          /\ dbcall' = [op |-> "ensure_unique_index_with_dedupe",
                        delete_null_keys |-> delete_null_keys, rows |-> table, ret |-> 0]
    /\ index_exists' = TRUE
    /\ DbFrame

DedupeTable ==
    /\ \E delete_null_keys \in BOOLEAN :
          LET res == dedupe_table(table, delete_null_keys)
          IN  /\ table' = res.rows
              /\ dbcall' = [op |-> "dedupe_table", delete_null_keys |-> delete_null_keys,
                            rows |-> table, ret |-> res.ret]
    /\ UNCHANGED index_exists
    /\ DbFrame

DbNext ==
    \/ EnsureUniqueIndexWithDedupe
    \/ DedupeTable

DbSpec == DbInit /\ [][DbNext]_vars

\* ------------------------------------------------------------ properties
\* the indices of the TradeRecords appended by the last call
NewTrades == (Len(pre.trades) + 1) .. Len(trades)

RECURSIVE SumOver(_, _)
SumOver(f, S) ==
    IF S = {} THEN 0
    ELSE LET x == CHOOSE y \in S : TRUE IN f[x] + SumOver(f, S \ {x})

SizeOf(b, sym) == IF sym \in DOMAIN b.positions THEN b.positions[sym].size ELSE 0

\* C1: after every execution of a buy or a sell the cash is not negative.
C1_CashNeverNegative == cash >= 0

\* C2: every position has size >= 0, and a position of size 0 has avg_price 0.
C2_PositionInvariant ==
    \A sym \in DOMAIN positions :
        /\ positions[sym].size >= 0
        /\ positions[sym].size = 0 => positions[sym].avg_price = ZeroFrac

\* a sell has just closed a position that was held
C2_Witness ==
    /\ call.op \in {"sell_sym", "sell_all_sym", "order_target_percent_sym", "rebalance_target_percents"}
    /\ \E sym \in DOMAIN pre.positions :
          /\ pre.positions[sym].size > 0
          /\ pre.positions[sym].avg_price # ZeroFrac
          /\ positions[sym].size = 0
          /\ \E i \in NewTrades : trades[i].action = "SELL" /\ trades[i].symbol = sym

\* C3: within one rebalance_target_percents every SELL record of the batch
\* precedes every BUY record of the batch, and the cash each buy draws on is
\* the cash at the start of the call plus the net proceeds of all the sells
\* of the batch, less the cost of the earlier buys of the batch.
C3_SellsBeforeBuys ==
    call.op = "rebalance_target_percents" =>
        LET net == [i \in NewTrades |->
                       IF trades[i].action = "SELL"
                       THEN trades[i].gross_amount - trades[i].fees
                       ELSE 0 - (trades[i].gross_amount + trades[i].fees)]
            sellsOfBatch == {j \in NewTrades : trades[j].action = "SELL"}
        IN  /\ \A i, j \in NewTrades :
                  (trades[i].action = "BUY" /\ trades[j].action = "SELL") => j < i
            /\ \A i \in NewTrades :
                  trades[i].action = "BUY" =>
                      trades[i].cash_after + trades[i].gross_amount + trades[i].fees
                          = pre.cash + SumOver(net, sellsOfBatch)
                                     + SumOver(net, {j \in NewTrades : j < i /\ trades[j].action = "BUY"})

\* a rebalance that executed a sell and a buy, the buy not affordable from the
\* cash the call started with
C3_Witness ==
    /\ call.op = "rebalance_target_percents"
    /\ \E i, j \in NewTrades :
          /\ trades[j].action = "SELL"
          /\ trades[i].action = "BUY"
          /\ trades[i].gross_amount + trades[i].fees > pre.cash

\* C4: a buy of requested size S > 0 at a price > 0 fills the largest n in
\* 1..S whose total cost exec_price*n + buy_fees(exec_price*n) is at most
\* the cash, and 0 when there is none; a fill of 0 appends no record and
\* leaves cash and positions unchanged.
C4_BuyFillsLargestAffordable ==
    (call.op = "buy_sym" /\ call.price > 0 /\ call.size > 0) =>
        LET exec_price == call.price * (RateDen + slippage) * RateDen
            cost(n) == exec_price * n
                       + Max((exec_price * n * commission_rate) \div RateDen, min_commission)
            affordable == {n \in 1..call.size : cost(n) <= pre.cash}
            fill == IF affordable = {} THEN 0
                    ELSE CHOOSE n \in affordable : \A m \in affordable : m <= n
        IN  /\ call.ret = fill
            /\ ~call.raised
            /\ SizeOf(Self, call.sym) = SizeOf(pre, call.sym) + fill
            /\ fill > 0 => /\ Len(trades) = Len(pre.trades) + 1
                            /\ trades[Len(trades)].action = "BUY"
                            /\ trades[Len(trades)].size = fill
                            /\ cash = pre.cash - cost(fill)
            /\ fill = 0 => /\ trades = pre.trades
                            /\ cash = pre.cash
                            /\ positions = pre.positions

\* the example of the claim: cash 100, no slippage, commission 0.1, no
\* minimum, price 10, 20 requested, 9 filled
C4_Witness ==
    /\ call.op = "buy_sym" /\ call.price = 10 /\ call.size = 20
    /\ pre.cash = 100 * Scale
    /\ slippage = 0 /\ min_commission = 0 /\ commission_rate * 10 = RateDen
    /\ call.ret = 9

\* C9: force_write_off of a held symbol zeroes its size, avg_price and mark,
\* changes nothing else and appends one WRITE_OFF record with fees 0, gross
\* amount 0 and the unchanged cash; on a symbol not held it changes nothing.
C9_WriteOffFrame ==
    call.op = "force_write_off" =>
        IF call.sym \in DOMAIN pre.positions /\ pre.positions[call.sym].size > 0
        THEN /\ positions[call.sym] = [size |-> 0, avg_price |-> ZeroFrac]
             /\ call.sym \in DOMAIN last_prices /\ last_prices[call.sym] = 0
             /\ cash = pre.cash
             /\ total_fees = pre.total_fees
             /\ DOMAIN positions = DOMAIN pre.positions
             /\ \A s \in DOMAIN positions \ {call.sym} : positions[s] = pre.positions[s]
             /\ DOMAIN last_prices = DOMAIN pre.last_prices \cup {call.sym}
             /\ \A s \in DOMAIN pre.last_prices \ {call.sym} : last_prices[s] = pre.last_prices[s]
             /\ Len(trades) = Len(pre.trades) + 1
             /\ SubSeq(trades, 1, Len(pre.trades)) = pre.trades
             /\ LET rec == trades[Len(trades)]
                 IN  /\ rec.action = "WRITE_OFF"
                     /\ rec.symbol = call.sym
                     /\ rec.fees = 0
                     /\ rec.gross_amount = 0
                     /\ rec.cash_after = pre.cash
        ELSE Self = pre

\* a held symbol written off while another symbol is held and marked
C9_Witness ==
    /\ call.op = "force_write_off"
    /\ call.sym \in DOMAIN pre.positions /\ pre.positions[call.sym].size > 0
    /\ pre.last_prices[call.sym] > 0
    /\ \E s \in DOMAIN pre.positions \ {call.sym} : pre.positions[s].size > 0

\* ----------------------------------------------------- engine properties
Count(seq, x) == Cardinality({i \in DOMAIN seq : seq[i] = x})
Finished == pc \in {"returned", "raised"}
\* the equity points so far are those of the first bars, in order
CurveFollowsBars ==
    /\ Len(equity_curve) <= Len(bars)
    /\ \A j \in DOMAIN equity_curve : equity_curve[j].trade_date = bars[j].trade_date

\* C5: a run() that returns normally has produced one equity point per bar,
\* dated as the bar, and has invoked on_bar once per bar (none for no bars).
C5_CurveLengthLaw ==
    pc = "returned" =>
        /\ Len(equity_curve) = Len(bars)
        /\ \A j \in DOMAIN bars : equity_curve[j].trade_date = bars[j].trade_date
        /\ Count(calls, "on_bar") = Len(bars)

\* a run over the longest bar sequence has returned
C5_Witness == pc = "returned" /\ Len(bars) = MaxBars /\ Len(equity_curve) = MaxBars

\* C6 as stated: in every finished run() of a strategy with the hooks,
\* on_start was invoked once, first, and on_end once, last.
C6_HooksOnceInEveryRun ==
    (has_hooks /\ Finished) =>
        /\ Count(calls, "on_start") = 1 /\ calls[1] = "on_start"
        /\ Count(calls, "on_end") = 1 /\ calls[Len(calls)] = "on_end"

\* C6 amended: on_start is invoked once and before anything else; when it
\* returned normally on_end is invoked once and after everything else,
\* whether run() returns or raises; when on_start raised, run() raises at
\* once and neither on_bar nor on_end is invoked.
C6_HooksOnceUnlessStartRaises ==
    has_hooks =>
        /\ pc # "idle" => (Count(calls, "on_start") = 1 /\ calls[1] = "on_start")
        /\ (Finished /\ raisedBy # "on_start") =>
               (Count(calls, "on_end") = 1 /\ calls[Len(calls)] = "on_end")
        /\ ~Finished => Count(calls, "on_end") = 0
        /\ raisedBy = "on_start" => (pc = "raised" /\ calls = <<"on_start">>)

\* a run aborted by an exception after at least one on_bar, on_end having run
C6_Witness ==
    /\ has_hooks /\ pc = "raised"
    /\ raisedBy \in {"on_bar", "mark_prices", "empty_marks"}
    /\ Count(calls, "on_bar") >= 1
    /\ calls[Len(calls)] = "on_end"

HookRaised(n) == barlog[n].hook.kind = "raises"
\* run() is raising, or has raised, out of the iteration of barlog entry n
AbortedAt(n) ==
    /\ n = Len(barlog)
    /\ pc \in {"finally", "raised"}
    /\ pending = "raise"
    /\ raisedBy \in {"mark_prices", "empty_marks", "on_end"}
    /\ Len(equity_curve) = barlog[n].i
    /\ CurveFollowsBars
\* the iteration of barlog entry n appended the equity point of its bar
PointAppended(n) ==
    /\ Len(equity_curve) >= barlog[n].i + 1
    /\ equity_curve[barlog[n].i + 1].trade_date = bars[barlog[n].i + 1].trade_date

\* C7: when mark_prices raises on bar k, under 'raise' run() propagates it
\* and the curve holds exactly the k points of bars 0..k-1; under 'warn' and
\* 'ignore' the engine does not raise, the point of bar k is appended, and
\* unless on_bar or on_end itself raises the run returns with N points.
C7_MarkErrorPolicy ==
    \A n \in DOMAIN barlog :
        HookRaised(n) =>
            IF mark_error_policy = "raise"
            THEN AbortedAt(n) /\ raisedBy \in {"mark_prices", "on_end"}
            ELSE /\ PointAppended(n)
                 /\ raisedBy \notin {"mark_prices", "empty_marks"}
                 /\ pc # "raised" \/ raisedBy \in {"on_bar", "on_end"}
                 /\ pc = "returned" => Len(equity_curve) = Len(bars)

\* under 'warn' the hook raised on the first of several bars and the run returned
C7_Witness ==
    /\ mark_error_policy = "warn" /\ pc = "returned"
    /\ Len(bars) >= 2 /\ Len(barlog) = Len(bars)
    /\ HookRaised(1)
    /\ Len(equity_curve) = Len(bars)

\* the strategy supplied no marks on the bar of barlog entry n while a symbol
\* other than the default symbol was held
NoMarksWithOtherPosition(n) ==
    /\ barlog[n].hook.marks = EmptyMap
    /\ \E sym \in DOMAIN barlog[n].held \ {symbol} : barlog[n].held[sym].size # 0

\* C8 as stated: with require_marks_when_positions, no marks from the
\* strategy and a position outside the default symbol make run() raise under
\* 'raise' and append the point under 'warn'/'ignore', whether or not a
\* default symbol is configured.
C8_GuardWithOrWithoutDefault ==
    \A n \in DOMAIN barlog :
        (require_marks_when_positions /\ NoMarksWithOtherPosition(n)) =>
            IF mark_error_policy = "raise" THEN AbortedAt(n) ELSE PointAppended(n)

\* C8 amended: the guard works as stated when no default symbol is
\* configured (under 'raise' run() raises from the guard, or from mark_prices
\* when that is what raised); with a default symbol the engine marks it at
\* the bar's close, the guard never fires, and the point is appended under
\* every policy unless mark_prices itself raised under 'raise'.
C8_GuardWithoutDefaultOnly ==
    \A n \in DOMAIN barlog :
        (require_marks_when_positions /\ NoMarksWithOtherPosition(n)) =>
            IF mark_error_policy = "raise" /\ HookRaised(n)
            THEN AbortedAt(n) /\ ~barlog[n].flagged
            ELSE IF symbol = ""
            THEN /\ barlog[n].flagged
                 /\ IF mark_error_policy = "raise"
                    THEN AbortedAt(n) /\ raisedBy \in {"empty_marks", "on_end"}
                    ELSE PointAppended(n)
            ELSE /\ ~barlog[n].flagged
                 /\ PointAppended(n)

\* no default symbol, policy 'raise', the hook returned no marks, a position
\* is held: run() raised from the guard
C8_Witness ==
    /\ symbol = "" /\ mark_error_policy = "raise" /\ require_marks_when_positions
    /\ pc = "raised" /\ raisedBy = "empty_marks"
    /\ barlog # << >> /\ NoMarksWithOtherPosition(Len(barlog))
    /\ ~HookRaised(Len(barlog))

\* C10: the run on the bars truncated after bar k and the run on all the
\* bars produce the same trade records and the same equity points for bars
\* 0..k, and the same Broker after each of these bars.
C10_NoLookahead ==
    (pc \in {"on_bar", "returned"} /\ twin # NoTwin) =>
            /\ Len(twin.equity_curve) <= Len(equity_curve)
            /\ twin.equity_curve = SubSeq(equity_curve, 1, Len(twin.equity_curve))
            /\ Len(twin.b.trades) <= Len(trades)
            /\ twin.b.trades = SubSeq(trades, 1, Len(twin.b.trades))
            /\ Len(twin.equity_curve) = Len(equity_curve) => twin.b = Self
            /\ twin.same

\* both runs are over, the truncated one lacks a bar whose close differs
\* from its last bar's, and the strategy traded within the common bars
C10_Witness ==
    /\ twin # NoTwin /\ twin.done /\ pc = "returned"
    /\ Len(twin.bars) < Len(bars)
    /\ bars[Len(bars)].close # bars[Len(twin.bars)].close
    /\ Len(twin.b.trades) >= 1
    /\ Len(trades) > Len(twin.b.trades)

\* ------------------------------------------------- claims C11 .. C20
\* what the accounting of a Broker comes to: the cash and every position size
Holdings(b) == [cash |-> b.cash, size |-> [sym \in Symbols |-> SizeOf(b, sym)]]

\* C11: a rebalance_target_percents ends with the same cash and the same
\* position size for every symbol whatever order the symbols of the union set
\* are visited in, for the same Broker, price_map and target_weights.
C11_RebalanceOrderIndependent ==
    call.op = "rebalance_target_percents" =>
        \A order \in Orders(RebalanceSymbols(pre, call.target_weights)) :
            Holdings(rebalance_target_percents(pre, DATE, call.price_map,
                                               call.target_weights, order).b)
                = Holdings(Self)
\* C12: a sell_sym of S > 0 at a price > 0 on a position of H fills
\* min(S, H) whatever the cash; with H = 0 it fills 0, appends no record and
\* leaves the cash unchanged; no position size is negative.
C12_SellFillsMinOfSizeAndHeld ==
    /\ \A sym \in DOMAIN positions : positions[sym].size >= 0
    /\ (call.op = "sell_sym" /\ call.price > 0 /\ call.size > 0) =>
          LET H == SizeOf(pre, call.sym)
              fill == Min(call.size, H)
          IN  /\ call.ret = fill
              /\ ~call.raised
              /\ SizeOf(Self, call.sym) = H - fill
              /\ fill > 0 => /\ Len(trades) = Len(pre.trades) + 1
                              /\ trades[Len(trades)].action = "SELL"
                              /\ trades[Len(trades)].symbol = call.sym
                              /\ trades[Len(trades)].size = fill
              /\ H = 0 => /\ call.ret = 0
                          /\ trades = pre.trades
                          /\ cash = pre.cash

\* a sell of more than is held, filled in full at the held size while the
\* cash was less than the fees the sell paid
C12_Witness ==
    /\ call.op = "sell_sym" /\ call.price > 0
    /\ SizeOf(pre, call.sym) > 0
    /\ call.size > SizeOf(pre, call.sym)
    /\ call.ret = SizeOf(pre, call.sym)
    /\ trades # << >> /\ pre.cash < trades[Len(trades)].fees

\* C13: every BUY record has fees = max(gross_amount * commission_rate,
\* min_commission); a buy whose gross amount is below
\* min_commission / commission_rate is charged min_commission.
C13_BuyFeesFloor ==
    \A i \in DOMAIN trades :
        trades[i].action = "BUY" =>
            LET commission == trades[i].gross_amount * commission_rate
            IN  /\ trades[i].fees * RateDen = Max(commission, min_commission * RateDen)
                /\ commission < min_commission * RateDen => trades[i].fees = min_commission

\* with a commission rate and a minimum above 0, one buy below the floor
\* was charged the minimum and one above it was charged the rate
C13_Witness ==
    /\ commission_rate > 0 /\ min_commission > 0
    /\ \E i, j \in DOMAIN trades :
          /\ trades[i].action = "BUY" /\ trades[j].action = "BUY"
          /\ trades[i].gross_amount * commission_rate < min_commission * RateDen
          /\ trades[i].fees = min_commission
          /\ trades[j].gross_amount * commission_rate > min_commission * RateDen
          /\ trades[j].fees > min_commission

\* C14: every SELL record has fees = max(gross_amount * commission_rate,
\* min_commission) + gross_amount * tax_rate: the floor is on the commission
\* alone, the tax is charged in full on top of it.
C14_SellFeesFloorOnCommissionOnly ==
    \A i \in DOMAIN trades :
        trades[i].action = "SELL" =>
            trades[i].fees * RateDen
                = Max(trades[i].gross_amount * commission_rate, min_commission * RateDen)
                  + trades[i].gross_amount * tax_rate

\* a sell whose commission was raised to the minimum and which paid tax on top
C14_Witness ==
    /\ commission_rate > 0 /\ tax_rate > 0 /\ min_commission > 0
    /\ \E i \in DOMAIN trades :
          /\ trades[i].action = "SELL"
          /\ trades[i].gross_amount * commission_rate < min_commission * RateDen
          /\ trades[i].fees > min_commission

\* the records the last call appended for sym
RecordsOf(sym) == {i \in NewTrades : trades[i].symbol = sym}

\* C17: the trade log only grows at its end: the log before a call is a
\* prefix of the log after it; a call appends one record for each symbol
\* whose position it changed (a BUY of the size gained, a SELL or WRITE_OFF
\* of the size lost) and none for a symbol it left as it was, so none for a
\* rejected order or a fill clamped to 0.
C17_TradeLogAppendOnly ==
    /\ Len(pre.trades) <= Len(trades)
    /\ SubSeq(trades, 1, Len(pre.trades)) = pre.trades
    /\ \A sym \in Symbols :
          LET d == SizeOf(Self, sym) - SizeOf(pre, sym)
          IN  IF d = 0 THEN RecordsOf(sym) = {}
              ELSE \E i \in NewTrades :
                      /\ RecordsOf(sym) = {i}
                      /\ trades[i].size = IF d > 0 THEN d ELSE 0 - d
                      /\ trades[i].action \in (IF d > 0 THEN {"BUY"} ELSE {"SELL", "WRITE_OFF"})
    /\ \A i \in NewTrades : trades[i].symbol \in Symbols /\ trades[i].size > 0
    /\ call.raised => trades = pre.trades
    /\ (call.op \in {"buy_sym", "sell_sym"} /\ (call.price <= 0 \/ call.size <= 0))
           => trades = pre.trades

\* a rebalance appended a SELL and then a BUY behind the records of an
\* earlier call
C17_Witness ==
    /\ call.op = "rebalance_target_percents"
    /\ Len(pre.trades) >= 1
    /\ Len(trades) = Len(pre.trades) + 2
    /\ trades[Len(trades) - 1].action = "SELL"
    /\ trades[Len(trades)].action = "BUY"
\* C15: update_marks(m) called a second time right after the first leaves
\* the same last_prices and the same total_equity() as the first call left,
\* and update_marks changes neither cash nor positions nor the trade log.
C15_UpdateMarksIdempotent ==
    call.op = "update_marks" =>
        LET again == update_marks(Self, call.price_map)
        IN  /\ again.last_prices = last_prices
            /\ total_equity(again) = total_equity(Self)
            /\ again = Self
            /\ cash = pre.cash
            /\ positions = pre.positions
            /\ trades = pre.trades
            /\ total_fees = pre.total_fees
            /\ \A sym \in DOMAIN call.price_map : last_prices[sym] = call.price_map[sym]
            /\ \A sym \in DOMAIN pre.last_prices \ DOMAIN call.price_map :
                  last_prices[sym] = pre.last_prices[sym]

\* update_marks moved the mark of a held symbol and with it the equity
C15_Witness ==
    /\ call.op = "update_marks"
    /\ \E sym \in DOMAIN call.price_map :
          /\ SizeOf(pre, sym) > 0
          /\ pre.last_prices[sym] # call.price_map[sym]
    /\ total_equity(Self) # total_equity(pre)
\* the cursor names a bar
CursorInRange == 0 <= _i /\ _i <= Len(bars) - 1

\* what step() and reset() did, call by call, and what prev yields
CursorMoves ==
    /\ \A n \in DOMAIN feedlog :
          LET e == feedlog[n]
          IN  /\ e.before = (IF n = 1 THEN 0 ELSE feedlog[n - 1].after)
              /\ e.op = "step" =>
                    IF e.before + 1 < Len(bars)
                    THEN e.ret /\ e.after = e.before + 1
                    ELSE ~e.ret /\ e.after = e.before
              /\ e.op = "reset" => e.after = 0
              /\ e.after < e.before => e.op = "reset"
    /\ _i = (IF feedlog = << >> THEN 0 ELSE feedlog[Len(feedlog)].after)
    /\ (feed_prev(Feed) = NoBar) <=> (_i = 0)
    /\ _i > 0 => feed_prev(Feed).trade_date = Dates[_i]

\* C16 as stated: the cursor is in [0, len-1] for every DataFeed, an empty
\* one included, and step(), reset() and prev behave as described.
C16_CursorInRangeOfEveryFeed == CursorInRange /\ CursorMoves

\* C16 amended: the cursor is in [0, len-1] for every DataFeed with at least
\* one bar; an empty DataFeed keeps its cursor at 0, where there is no bar;
\* step(), reset() and prev behave as described on every DataFeed.
C16_CursorInRangeOfNonEmptyFeed ==
    /\ Len(bars) >= 1 => CursorInRange
    /\ Len(bars) = 0 => _i = 0
    /\ CursorMoves

\* a feed stepped to its last bar, refused a further step, reset, and
\* stepped again
C16_Witness ==
    /\ Len(bars) = MaxBars
    /\ Len(feedlog) >= 4
    /\ \E n \in 2..(Len(feedlog) - 2) :
          /\ feedlog[n - 1].op = "step" /\ feedlog[n - 1].ret
          /\ feedlog[n].op = "step" /\ ~feedlog[n].ret /\ feedlog[n].before = Len(bars) - 1
          /\ feedlog[n + 1].op = "reset" /\ feedlog[n + 1].before > 0
          /\ feedlog[n + 2].op = "step" /\ feedlog[n + 2].ret
    /\ _i = 1 /\ feed_prev(Feed) = bars[1]
\* the position size of every symbol
Sizes_of(p) == [sym \in Symbols |-> IF sym \in DOMAIN p THEN p[sym].size ELSE 0]

\* C18: the steps of run() other than the strategy's on_bar change neither
\* the cash nor a position size nor the trade log; while the strategy has
\* issued no order the cash is the initial cash, the trade log is empty and
\* every equity point equals the initial cash.
C18_EngineLeavesLedgerAlone ==
    /\ [](nops = 0 =>
            /\ cash = initial_cash
            /\ trades = << >>
            /\ \A sym \in DOMAIN positions : positions[sym].size = 0
            /\ \A j \in DOMAIN equity_curve : equity_curve[j].equity = initial_cash)
    /\ [][pc # "on_bar" =>
            /\ cash' = cash
            /\ trades' = trades
            /\ total_fees' = total_fees
            /\ Sizes_of(positions') = Sizes_of(positions)]_vars

\* a run over the longest bar sequence whose strategy issued no order has
\* returned, marks having been applied on every bar
C18_Witness ==
    /\ pc = "returned" /\ nops = 0
    /\ Len(bars) = MaxBars /\ Len(equity_curve) = MaxBars
    /\ last_prices # EmptyMap
    /\ Count(calls, "on_bar") = MaxBars
\* the year bucket of a date, and whether the store prices every symbol of
\* the strategy on the date of bar n
BucketOf(date) == (date \div 10000) \div rebalance_year_interval
PricesComplete(n) == \A k \in DOMAIN symbols : etf_daily[n][symbols[k]] > 0
\* bar n is on or after start_date and fully priced
Eligible(n) == bars[n].trade_date >= start_date /\ PricesComplete(n)
\* bar n is the first such bar of its bucket
FirstEligibleOfBucket(n) ==
    /\ Eligible(n)
    /\ ~\E k \in 1..(n - 1) :
          Eligible(k) /\ BucketOf(bars[k].trade_date) = BucketOf(bars[n].trade_date)

\* C19: the strategy orders a rebalance on exactly the first bar of each
\* year bucket that is dated on or after start_date and has an open for
\* every configured symbol; a bar with a price missing orders nothing, the
\* next bar of the bucket trying again; rebalance_history holds one record
\* per rebalanced bucket, dated as its bar, and every trade bears such a date.
C19_RebalanceOncePerBucket ==
    /\ \A n \in DOMAIN onbarlog :
          /\ onbarlog[n].i = n - 1
          /\ onbarlog[n].ordered <=> FirstEligibleOfBucket(n)
    /\ Len(rebalance_history) = Cardinality({n \in DOMAIN onbarlog : onbarlog[n].ordered})
    /\ \A n \in DOMAIN onbarlog :
          onbarlog[n].ordered =>
              \E r \in DOMAIN rebalance_history :
                  rebalance_history[r].rebalance_date = bars[n].trade_date
    /\ \A q, r \in DOMAIN rebalance_history :
          q # r => BucketOf(rebalance_history[q].rebalance_date)
                       # BucketOf(rebalance_history[r].rebalance_date)
    /\ \A t \in DOMAIN trades :
          \E r \in DOMAIN rebalance_history :
              rebalance_history[r].rebalance_date = trades[t].trade_date

\* three bars of one bucket on or after start_date: the first lacks a
\* price and orders nothing, the second rebalances, the third is fully
\* priced and orders nothing
C19_Witness ==
    /\ Len(onbarlog) >= 3
    /\ \E n \in 1..(Len(onbarlog) - 2) :
          /\ bars[n].trade_date >= start_date
          /\ BucketOf(bars[n].trade_date) = BucketOf(bars[n + 2].trade_date)
          /\ ~PricesComplete(n) /\ ~onbarlog[n].ordered
          /\ onbarlog[n + 1].ordered
          /\ PricesComplete(n + 2) /\ ~onbarlog[n + 2].ordered
    /\ Len(rebalance_history) >= 1
    /\ trades # << >>
\* two rows with the same values in both key columns
SameKey(r1, r2) == r1.a = r2.a /\ r1.b = r2.b

\* C20: after ensure_unique_index_with_dedupe no two rows have the same
\* values in all key columns; of the rows that shared a key the one with the
\* smallest rowid is kept, a row whose key was unique is untouched; with
\* delete_null_keys no row with a NULL or empty key column remains.
C20_DedupeLeavesUniqueKeys ==
    dbcall.op = "ensure_unique_index_with_dedupe" =>
        LET before == dbcall.rows
            Rows(t) == {t[k] : k \in DOMAIN t}
            wanted(row) == ~(dbcall.delete_null_keys /\ NullOrEmptyKey(row))
        IN  /\ \A m, n \in DOMAIN table : m # n => ~SameKey(table[m], table[n])
            /\ Rows(table) \subseteq Rows(before)
            /\ \A row \in Rows(before) :
                  wanted(row) =>
                      (row \in Rows(table)
                          <=> \A other \in Rows(before) :
                                  SameKey(other, row) => row.rowid <= other.rowid)
            /\ dbcall.delete_null_keys => \A k \in DOMAIN table : ~NullOrEmptyKey(table[k])
\* ------------------------------------------------- claims C21 .. C30
\* the last call was a rebalance_target_percents
IsRebalance == call.op = "rebalance_target_percents"
\* the price the batch has for sym, 0 when it has none
BatchPrice(sym) ==
    IF sym \in DOMAIN call.price_map /\ call.price_map[sym] > 0 THEN call.price_map[sym] ELSE 0
\* the weight the batch aims at for sym, clamped into [0, 1]
BatchWeight(sym) ==
    IF sym \in DOMAIN call.target_weights /\ call.target_weights[sym] > 0
    THEN Min(RateDen, call.target_weights[sym]) ELSE 0
\* the equity of the Broker the call started from, every symbol priced by
\* the batch valued at that price
BatchEquity ==
    LET mark(sym) == IF BatchPrice(sym) > 0 THEN Px(BatchPrice(sym))
                     ELSE IF sym \in DOMAIN pre.last_prices THEN pre.last_prices[sym]
                     ELSE 0
        value == [sym \in DOMAIN pre.positions |-> pre.positions[sym].size * mark(sym)]
    IN  pre.cash + SumOver(value, DOMAIN pre.positions)
BatchExecPrice(sym) ==
    IF BatchWeight(sym) > 0 THEN BatchPrice(sym) * (RateDen + slippage) * RateDen
                            ELSE BatchPrice(sym) * (RateDen - slippage) * RateDen
\* floor(E * w / exec_price)
BatchTarget(sym) == (BatchEquity * BatchWeight(sym)) \div (RateDen * BatchExecPrice(sym))
\* the symbols of the union that the batch prices
BatchSymbols ==
    {sym \in (DOMAIN pre.positions) \cup {x \in Symbols : BatchWeight(x) > 0} : BatchPrice(sym) > 0}

BatchUnion == (DOMAIN pre.positions) \cup {sym \in Symbols : BatchWeight(sym) > 0}

\* C22: a rebalance passes over every symbol of the union that has no
\* price, or a price of 0 or less, in price_map: its position and its mark
\* stay as they were, no record is appended for it, and the call returns.
C22_UnpricedSymbolSkipped ==
    IsRebalance =>
        /\ ~call.raised
        /\ \A sym \in BatchUnion \ BatchSymbols :
              /\ RecordsOf(sym) = {}
              /\ IF sym \in DOMAIN pre.positions
                 THEN sym \in DOMAIN positions /\ positions[sym] = pre.positions[sym]
                 ELSE SizeOf(Self, sym) = 0
              /\ IF sym \in DOMAIN pre.last_prices
                 THEN sym \in DOMAIN last_prices /\ last_prices[sym] = pre.last_prices[sym]
                 ELSE sym \notin DOMAIN last_prices

\* a rebalance passed over a held symbol priced at 0 and traded the other
\* symbol
C22_Witness ==
    /\ IsRebalance
    /\ \E sym \in DOMAIN pre.positions :
          /\ pre.positions[sym].size > 0
          /\ sym \in DOMAIN call.price_map /\ call.price_map[sym] = 0
          /\ positions[sym] = pre.positions[sym]
          /\ \E i \in NewTrades : trades[i].symbol # sym
\* the records of one action among those the last call appended
NewRecords(action) == {i \in NewTrades : trades[i].action = action}

\* C23 as stated: the 'sells' and 'buys' a rebalance returns are the numbers
\* of SELL and BUY records the call appended.
C23_CountsAreRecordsAppended ==
    IsRebalance =>
        /\ call.ret.sells = Cardinality(NewRecords("SELL"))
        /\ call.ret.buys = Cardinality(NewRecords("BUY"))

\* the last call was an order_target_percent_sym at a price above 0
IsTargetOrder == call.op = "order_target_percent_sym" /\ call.price > 0
\* the target clamped into [0, 1]
OrderTarget == Max(0, Min(RateDen, call.target))
\* E: the equity of the Broker the call started from, call.sym marked at price
OrderEquity ==
    LET mark(sym) == IF sym = call.sym THEN Px(call.price)
                     ELSE IF sym \in DOMAIN pre.last_prices THEN pre.last_prices[sym]
                     ELSE 0
        value == [sym \in DOMAIN pre.positions |-> pre.positions[sym].size * mark(sym)]
    IN  pre.cash + SumOver(value, DOMAIN pre.positions)
OrderExecPrice ==
    IF OrderTarget > 0 THEN call.price * (RateDen + slippage) * RateDen
                       ELSE call.price * (RateDen - slippage) * RateDen
\* T = floor(E * target / exec_price)
OrderTargetSize == (OrderEquity * OrderTarget) \div (RateDen * OrderExecPrice)
\* the cost of buying n shares at the buy price, fees included
OrderCost(n) ==
    LET gross == call.price * (RateDen + slippage) * RateDen * n
    IN  gross + Max((gross * commission_rate) \div RateDen, min_commission)

SamePeriodBefore(k) ==
    {j \in 1..(k - 1) : Periodic_period_key(onbarlog[j].trade_date)
                           = Periodic_period_key(onbarlog[k].trade_date)}

\* C25 as stated: in LowPEQuarterlyStrategy and AHPremiumQuarterlyStrategy a
\* failed rebalance attempt leaves the period unmarked, every later bar of the
\* period attempts the rebalance again until one attempt succeeds, and after a
\* success no further rebalance is made in that period.
C25_RetryUntilSuccess ==
    /\ LET succ == {k \in DOMAIN onbarlog : onbarlog[k].ordered}
       IN  _last_rebalance_period =
               IF succ = {} THEN << >>
               ELSE Periodic_period_key(
                        onbarlog[CHOOSE k \in succ : \A j \in succ : j <= k].trade_date)
    /\ \A k \in DOMAIN onbarlog :
           LET done == \E j \in SamePeriodBefore(k) : onbarlog[j].ordered
               failed == \E j \in SamePeriodBefore(k) :
                             onbarlog[j].attempted /\ ~onbarlog[j].ordered
           IN  /\ done => ~onbarlog[k].ordered
               /\ (failed /\ ~done) => onbarlog[k].attempted

\* the marks the engine hands to update_marks for the current bar, given what
\* mark_prices returned
MarksOfBar(hook) ==
    LET marks0 == IF hook.kind = "returns" THEN hook.marks ELSE EmptyMap
    IN  IF symbol # "" /\ symbol \notin DOMAIN marks0
        THEN Put(marks0, symbol, Px(bars[_i + 1].close))
        ELSE marks0

\* a step of run() keeps the iterations apart
IterationStep ==
    /\ Count(calls', "on_bar") # Count(calls, "on_bar") =>
          /\ pc = "on_bar"
          /\ Count(calls, "on_bar") = _i
          /\ Len(barlog) = _i
          /\ Len(equity_curve) = _i
          /\ Count(calls', "on_bar") = _i + 1
          /\ _i' = _i
    /\ Len(equity_curve') > Len(equity_curve) =>
          LET point == equity_curve'[Len(equity_curve')]
              hook == barlog'[Len(barlog')].hook
              mark(sym) == IF sym \in DOMAIN MarksOfBar(hook) THEN MarksOfBar(hook)[sym]
                           ELSE IF sym \in DOMAIN last_prices THEN last_prices[sym]
                           ELSE 0
              value == [sym \in DOMAIN positions |-> positions[sym].size * mark(sym)]
          IN  /\ pc = "marks"
              /\ Len(equity_curve') = _i + 1
              /\ Len(barlog') = _i + 1
              /\ Count(calls, "on_bar") = _i + 1
              /\ point.trade_date = bars[_i + 1].trade_date
              /\ point.equity = cash + SumOver(value, DOMAIN positions)
              /\ cash' = cash /\ positions' = positions /\ trades' = trades
    /\ _i' # _i => (_i' = _i + 1 /\ Len(equity_curve') = _i')

\* C26: on_bar(i) is invoked when exactly i on_bar calls, i mark collections
\* and i equity points lie behind; equity point i is appended after on_bar(i)
\* and the mark collection of bar i, carries the date of bar i and values the
\* cash and the positions on_bar(i) left at the marks of bar i; the feed
\* moves on by one bar only once point i is there.  No bar gets more than one
\* on_bar, and a run that returns has given every bar its on_bar.
C26_OneIterationAtATime ==
    /\ [](Count(calls, "on_bar") <= Len(bars))
    /\ [](pc = "returned" =>
            (Count(calls, "on_bar") = Len(bars) /\ Len(equity_curve) = Len(bars)))
    /\ [][IterationStep]_vars

\* the second bar's on_bar bought, and the second equity point differs from
\* the first
C26_Witness ==
    /\ Len(equity_curve) >= 2
    /\ Count(calls, "on_bar") = Len(equity_curve)
    /\ \E k \in DOMAIN trades : trades[k].trade_date = bars[2].trade_date
    /\ equity_curve[2].equity # equity_curve[1].equity

\* the last call was an order on one symbol with a price <= 0, or a buy_sym or
\* sell_sym with a size <= 0
IsRejectedOrder ==
    \/ /\ call.op \in {"buy_sym", "buy_all_sym", "sell_sym", "sell_all_sym",
                       "order_target_percent_sym"}
       /\ call.price <= 0
    \/ /\ call.op \in {"buy_sym", "sell_sym"}
       /\ call.size <= 0
\* sym has the size, the avg_price and the mark it had when the call started
Untouched(sym) ==
    /\ SizeOf(Self, sym) = SizeOf(pre, sym)
    /\ sym \in DOMAIN pre.positions =>
           positions[sym].avg_price = pre.positions[sym].avg_price
    /\ (sym \in DOMAIN last_prices) = (sym \in DOMAIN pre.last_prices)
    /\ sym \in DOMAIN last_prices => last_prices[sym] = pre.last_prices[sym]

\* C27 as stated: an order primitive called with a price <= 0 (or a size <= 0)
\* returns 0 without raising, appends no TradeRecord and leaves cash,
\* total_fees, every position and the symbol's mark as they were; a rebalance
\* does so for every symbol it has no price above 0 for.
C27_NonPositiveOrderRejected ==
    /\ IsRejectedOrder =>
          /\ ~call.raised
          /\ call.ret = 0
          /\ trades = pre.trades
          /\ cash = pre.cash
          /\ total_fees = pre.total_fees
          /\ \A sym \in Symbols : Untouched(sym)
    /\ IsRebalance =>
          /\ ~call.raised
          /\ \A sym \in Symbols : BatchPrice(sym) = 0 =>
                 (Untouched(sym) /\ RecordsOf(sym) = {})

\* C28: total_fees is the sum of the fees of the TradeRecords in trades, a
\* WRITE_OFF record carrying fees 0, and no step lowers total_fees.
C28_TotalFeesIsSumOfRecordFees ==
    /\ [](/\ total_fees = SumOver([i \in DOMAIN trades |-> trades[i].fees], DOMAIN trades)
          /\ \A i \in DOMAIN trades :
                 /\ trades[i].fees >= 0
                 /\ trades[i].action = "WRITE_OFF" => trades[i].fees = 0)
    /\ [][total_fees' >= total_fees]_vars

\* a second trade added its fees to those of the first
C28_Witness ==
    /\ Len(trades) >= 2
    /\ trades[1].fees > 0
    /\ trades[2].fees > 0
    /\ total_fees = trades[1].fees + trades[2].fees

\* the cash, the sizes and the marks of Broker b
Ledger(b) ==
    [cash |-> b.cash,
     size |-> [sym \in Symbols |-> SizeOf(b, sym)],
     mark |-> [sym \in Symbols |-> IF sym \in DOMAIN b.last_prices THEN b.last_prices[sym] ELSE 0]]
\* the ledger as the last call had it before its first trade: a rebalance has
\* marked the symbols it prices, an order_target_percent_sym its symbol
StartLedger ==
    LET l == Ledger(pre)
    IN  IF IsRebalance
        THEN [l EXCEPT !.mark = [sym \in Symbols |->
                            IF sym \in BatchSymbols THEN Px(BatchPrice(sym)) ELSE l.mark[sym]]]
        ELSE IF call.op = "order_target_percent_sym"
        THEN [l EXCEPT !.mark[call.sym] = Px(call.price)]
        ELSE l
\* the ledger after the trade that record r describes
LedgerAfter(l, r) ==
    [cash |-> IF r.action = "BUY" THEN l.cash - r.gross_amount - r.fees
              ELSE l.cash + r.gross_amount - r.fees,
     size |-> [l.size EXCEPT ![r.symbol] = IF r.action = "BUY" THEN @ + r.size ELSE @ - r.size],
     mark |-> [l.mark EXCEPT ![r.symbol] = r.exec_price]]
\* the ledger after the first k records of the last call
RECURSIVE LedgerAt(_)
LedgerAt(k) ==
    IF k = 0 THEN StartLedger ELSE LedgerAfter(LedgerAt(k - 1), trades[Len(pre.trades) + k])
LedgerEquity(l) == l.cash + SumOver([sym \in Symbols |-> l.size[sym] * l.mark[sym]], Symbols)

\* C29: for every BUY or SELL record, equity_after is the equity just before
\* the trade with the traded symbol marked at the record's exec_price, minus
\* the record's fees; cash_after and position_after are the cash and the
\* symbol's size just after the trade.
C29_TradeCostsItsFees ==
    /\ \A k \in 1..(Len(trades) - Len(pre.trades)) :
           LET r == trades[Len(pre.trades) + k]
               before == LedgerAt(k - 1)
               after == LedgerAt(k)
           IN  r.action \in {"BUY", "SELL"} =>
                  /\ r.equity_after
                        = LedgerEquity([before EXCEPT !.mark[r.symbol] = r.exec_price]) - r.fees
                  /\ r.cash_after = after.cash
                  /\ r.position_after = after.size[r.symbol]
    /\ LedgerAt(Len(trades) - Len(pre.trades)).cash = cash
    /\ LedgerAt(Len(trades) - Len(pre.trades)).size = Ledger(Self).size

\* a rebalance sold one symbol and bought the other with fees, at an
\* exec_price that is not the price it marked the bought symbol at
C29_Witness ==
    /\ IsRebalance
    /\ Len(trades) = Len(pre.trades) + 2
    /\ trades[Len(trades) - 1].action = "SELL"
    /\ trades[Len(trades)].action = "BUY"
    /\ trades[Len(trades)].fees > 0
    /\ trades[Len(trades)].exec_price # trades[Len(trades)].price

\* the last call was a buy-all at a price above 0
IsBuyAll == call.op = "buy_all_sym" /\ call.price > 0
BuyAllExecPrice == call.price * (RateDen + slippage) * RateDen
\* exec_price * n + buy_fees(exec_price * n)
BuyAllCost(n) ==
    BuyAllExecPrice * n + Max((BuyAllExecPrice * n * commission_rate) \div RateDen, min_commission)
\* the largest n >= 0 that the cash the call started with pays for
BuyAllLargest ==
    LET fits == {n \in 1..(pre.cash \div BuyAllExecPrice) : BuyAllCost(n) <= pre.cash}
    IN  IF fits = {} THEN 0 ELSE CHOOSE n \in fits : \A k \in fits : k <= n
\* floor(cash / (exec_price * (1 + commission_rate)))
BuyAllEstimate == (pre.cash * RateDen) \div (BuyAllExecPrice * (RateDen + commission_rate))

\* C30: a buy-all at a price above 0 fills the largest n with exec_price * n +
\* buy_fees(exec_price * n) <= cash; the size estimate it starts from is not
\* below that n; afterwards one more share at the same price is beyond the
\* cash, and the cash is not negative.
C30_BuyAllFillsLargestAffordable ==
    IsBuyAll =>
        /\ ~call.raised
        /\ BuyAllEstimate >= BuyAllLargest
        /\ call.ret = BuyAllLargest
        /\ SizeOf(Self, call.sym) = SizeOf(pre, call.sym) + BuyAllLargest
        /\ cash = IF BuyAllLargest = 0 THEN pre.cash ELSE pre.cash - BuyAllCost(BuyAllLargest)
        /\ BuyAllCost(1) > cash
        /\ cash >= 0

====
